---------------------------- MODULE Spec2Model ----------------------------
(***************************************************************************)
(* Rule & consensus engine of the forex trading bot.                       *)
(*                                                                         *)
(* Money is counted in whole account-currency units, lot sizes in whole    *)
(* lot units and time in seconds since the start of the run (the value of  *)
(* datetime.now(UTC)).  The warning threshold, a fraction in the rules     *)
(* file, is kept in percent so that every comparison is exact.             *)
(*                                                                         *)
(* Specifications:                                                         *)
(*   SpecPure      the engine's pure checks applied to drawn inputs        *)
(*   SpecDrawdown  the high-water-mark monitors under arbitrary snapshots  *)
(*   SpecQueue     the queued-closure operations of the rule engine        *)
(*   SpecLoop      ForexBot.run's polling loop against the broker          *)
(***************************************************************************)
EXTENDS Integers, Sequences, FiniteSets, TLC

VARIABLES
    rules,              \* FTMORuleManager.rules, loaded once at construction
    serverOffset,       \* the broker server's real offset from UTC, seconds
    call,               \* the last public-method call: inputs and return value
    peak_balance,       \* FTMORuleManager.peak_balance  ([has, val]: attribute set?)
    daily_equity_high,  \* FTMORuleManager.daily_equity_high ([has, val])
    observed,           \* the balances read so far by the three monitors
    queued_closures,    \* FTMORuleManager._queued_closures
    positions,          \* the broker's open positions: [ticket, symbol, time]
    market_is_open,     \* MT5Trader.market_is_open as the broker answers it now
    session_open,       \* MarketSessionManager: some trading session is active
    account,            \* the broker's account snapshot
    now,                \* the clock
    next_ticket,        \* the broker's next position ticket
    tick,               \* what the last polling-loop iteration did
    daily_stats,        \* FTMORuleManager.daily_stats
    last_reset,         \* FTMORuleManager.last_reset, local clock seconds
    today,              \* the local date of the last daily call and what was read on it
    providers,          \* SignalManager.providers: name -> [is_active, symbols]
    active_symbols,     \* SignalManager.active_symbols
    signal_cache,       \* SignalManager._signal_cache and _last_evaluation_time
    last_signal,        \* SignalProvider._last_signal of one provider: symbol -> signal
    emitted             \* the last valid signal calculate_signal returned, per symbol

vars == <<rules, serverOffset, call, peak_balance, daily_equity_high, observed,
          queued_closures, positions, market_is_open, session_open, account,
          now, next_ticket, tick, daily_stats, last_reset, today, providers,
          active_symbols, signal_cache, last_signal, emitted>>

---------------------------------------------------------------------------
(* Bounds and input sets *)

MaxTickets == 3
MaxClock == 1
MaxDays == 2
MaxHalfMinutes == 2

\* One clock step of the model, in seconds (one hour).
ClockStep == 60 * 60

\* The rule sets drawn for the pure checks.  Loss limits are negative.
RuleSets ==
    [max_daily_loss : {-2, -1},
     max_total_loss : {-1, 1},
     max_lots : {1, 2},
     max_position_duration : {60},
     warning_threshold : {75}]

\* The rule set the stateful specifications run with.
LoopRules ==
    [max_daily_loss |-> -1, max_total_loss |-> 1, max_lots |-> 2,
     max_position_duration |-> 60, warning_threshold |-> 75]

Profits == -3 .. 1
Balances == -1 .. 2
LotSizes == 1 .. 3

\* EET (UTC+2) and EEST (UTC+3): the broker server's clock in winter and summer.
ServerOffsets == {7200, 10800}

NoCall == [op |-> "none"]
Unset == [has |-> FALSE, val |-> 0]
NoTick == [ran |-> FALSE]
NoDay == [date |-> 0, equities |-> {}, profits |-> {}]

---------------------------------------------------------------------------
(* FTMORuleManager.check_position_allowed *)

\* A variant that stops checking after the daily-loss test.
check_position_allowed_daily_only(r, account_info, position_size) ==
    IF account_info.profit <= r.max_daily_loss
    THEN [allowed |-> FALSE, reason |-> "Daily loss limit reached"]
    ELSE [allowed |-> TRUE, reason |-> "Position allowed"]

\* src/src/core/ftmo_rule_manager.py: the three tests run one after the other,
\* each overwriting result and message.
check_position_allowed(r, account_info, position_size) ==
    LET s0 == [allowed |-> TRUE, reason |-> "Position allowed"]
        s1 == IF account_info.profit <= r.max_daily_loss
              THEN [allowed |-> FALSE, reason |-> "Daily loss limit reached"]
              ELSE s0
        s2 == IF account_info.balance <= r.max_total_loss
              THEN [allowed |-> FALSE, reason |-> "Total loss limit reached"]
              ELSE s1
        s3 == IF position_size > r.max_lots
              THEN [allowed |-> FALSE,
                    reason |-> "Position size exceeds maximum allowed"]
              ELSE s2
    IN  s3

\* core/ftmo_rule_manager.py: the earlier revision returns at the first
\* failing test.
check_position_allowed_legacy(r, account_info, position_size) ==
    IF account_info.profit <= r.max_daily_loss
    THEN [allowed |-> FALSE, reason |-> "Daily loss limit reached"]
    ELSE IF account_info.balance <= r.max_total_loss
    THEN [allowed |-> FALSE, reason |-> "Total loss limit reached"]
    ELSE IF position_size > r.max_lots
    THEN [allowed |-> FALSE, reason |-> "Position size exceeds maximum allowed"]
    ELSE [allowed |-> TRUE, reason |-> "Position allowed"]

---------------------------------------------------------------------------
(* FTMORuleManager.check_position_duration *)

\* The fixed offset the code subtracts from a numeric position time
\* ("Convert MT5 server time (EET/UTC+2) to UTC").
EetOffset == 7200

\* FTMORuleManager._get_default_result
_get_default_result(r) ==
    [needs_closure |-> FALSE, warning |-> FALSE, duration_seconds |-> 0,
     max_duration |-> r.max_position_duration, error |-> TRUE]

\* The report for a position whose open time the code took to be open_time.
\* duration_minutes of the code is duration_seconds / 60, so
\*   duration_minutes >= max_duration              is  seconds >= 60 * max
\*   duration_minutes >= max_duration * threshold  is  seconds * 100 >= 60 * max * pct
DurationReport(r, open_time, current_time) ==
    LET duration_seconds == current_time - open_time
        max_duration == r.max_position_duration
    IN  [needs_closure |-> duration_seconds >= 60 * max_duration,
         warning |-> duration_seconds * 100
                        >= 60 * max_duration * r.warning_threshold,
         duration_seconds |-> duration_seconds,
         max_duration |-> max_duration,
         error |-> FALSE]

\* A variant without the guards: no tick is needed and any open time is
\* read as a '%Y-%m-%d %H:%M:%S' string.
check_position_duration_unguarded(r, position, current_time, tick_available) ==
    IF position.time.fmt = "num"
    THEN DurationReport(r, position.time.stamp - EetOffset, current_time)
    ELSE DurationReport(r, position.time.stamp, current_time)

\* position.time is [fmt, stamp]: "num" a numeric timestamp, "str" a
\* '%Y-%m-%d %H:%M:%S' string, "bad" anything strptime rejects; stamp is the
\* reading of the broker server's clock when the position was opened.
\* tick_available: mt5.symbol_info_tick("EURUSD") returned a tick (the method
\* reads its .time before anything else, inside the try).
check_position_duration(r, position, current_time, tick_available) ==
    IF ~tick_available
    THEN _get_default_result(r)
    ELSE IF position.time.fmt = "num"
    THEN DurationReport(r, position.time.stamp - EetOffset, current_time)
    ELSE IF position.time.fmt = "str"
    THEN DurationReport(r, position.time.stamp, current_time)
    ELSE _get_default_result(r)

---------------------------------------------------------------------------
(* SpecPure: the pure checks applied to drawn inputs *)

TimeFormats == {"num", "str", "bad"}
OpenInstants == {0, ClockStep}
\* Time a position has really been open when it is checked, seconds.
Elapsed == {0, 2699, 2700, 3599, 3600, 3601, 7200}

\* The state right after FTMORuleManager.__init__ with no broker activity yet.
\* The account as the broker reports it when the bot starts.
StartAccount == [balance |-> 10, equity |-> 10, profit |-> 0]

Constructed ==
    /\ call = NoCall
    /\ peak_balance = Unset
    /\ daily_equity_high = Unset
    /\ observed = {}
    /\ queued_closures = {}
    /\ positions = {}
    /\ market_is_open = FALSE
    /\ session_open = FALSE
    /\ account = StartAccount
    /\ now = 0
    /\ next_ticket = 1
    /\ tick = NoTick
    /\ daily_stats = [total_profit |-> 0, positions_opened |-> 0,
                      max_drawdown |-> 0]
    /\ last_reset = 0
    /\ today = NoDay
    /\ providers = << >>
    /\ active_symbols = {}
    /\ signal_cache = << >>
    /\ last_signal = << >>
    /\ emitted = << >>

InitPure ==
    /\ rules \in RuleSets
    /\ serverOffset \in ServerOffsets
    /\ Constructed

CheckPositionAllowed ==
    \E profit \in Profits, balance \in Balances, size \in LotSizes :
        LET account_info == [balance |-> balance, equity |-> balance + profit,
                             profit |-> profit]
        IN  /\ call' = [op |-> "check_position_allowed",
                        account_info |-> account_info,
                        position_size |-> size,
                        result |-> check_position_allowed(rules, account_info, size)]
            /\ UNCHANGED <<rules, serverOffset, daily_stats, last_reset, today,
                   providers, active_symbols, signal_cache, last_signal, emitted, peak_balance, daily_equity_high,
                           observed, queued_closures, positions, market_is_open,
                           session_open, account, now, next_ticket, tick>>

CheckPositionAllowedLegacy ==
    \E profit \in Profits, balance \in Balances, size \in LotSizes :
        LET account_info == [balance |-> balance, equity |-> balance + profit,
                             profit |-> profit]
        IN  /\ call' = [op |-> "check_position_allowed_legacy",
                        account_info |-> account_info,
                        position_size |-> size,
                        result |-> check_position_allowed_legacy(rules,
                                        account_info, size)]
            /\ UNCHANGED <<rules, serverOffset, daily_stats, last_reset, today,
                   providers, active_symbols, signal_cache, last_signal, emitted, peak_balance, daily_equity_high,
                           observed, queued_closures, positions, market_is_open,
                           session_open, account, now, next_ticket, tick>>

\* The position was opened at instant opened (UTC); the broker stamps it with
\* its server clock, opened + serverOffset.
CheckPositionDuration ==
    \E opened \in OpenInstants, e \in Elapsed, fmt \in TimeFormats,
       tick_available \in BOOLEAN :
        LET position == [ticket |-> 1, symbol |-> "EURUSD",
                         time |-> [fmt |-> fmt, stamp |-> opened + serverOffset]]
        IN  /\ call' = [op |-> "check_position_duration",
                        position |-> position,
                        opened |-> opened,
                        current_time |-> opened + e,
                        tick_available |-> tick_available,
                        result |-> check_position_duration(rules, position,
                                        opened + e, tick_available)]
            /\ UNCHANGED <<rules, serverOffset, daily_stats, last_reset, today,
                   providers, active_symbols, signal_cache, last_signal, emitted, peak_balance, daily_equity_high,
                           observed, queued_closures, positions, market_is_open,
                           session_open, account, now, next_ticket, tick>>

Abs(x) == IF x < 0 THEN -x ELSE x

\* FTMORuleManager.check_ftmo_compliance called without a position: the
\* daily-loss and total-loss tests compare absolute values, the warnings are
\* at 80% of a limit (abs(x) >= abs(limit * 0.8) is 5 * abs(x) >= 4 * abs(limit)).
check_ftmo_compliance(r, account_info) ==
    LET total_loss == account_info.balance - account_info.equity
        daily == IF Abs(account_info.profit) >= Abs(r.max_daily_loss)
                 THEN [violations |-> <<"Daily loss limit exceeded">>,
                       warnings |-> <<>>]
                 ELSE IF 5 * Abs(account_info.profit) >= 4 * Abs(r.max_daily_loss)
                 THEN [violations |-> <<>>,
                       warnings |-> <<"Approaching daily loss limit">>]
                 ELSE [violations |-> <<>>, warnings |-> <<>>]
        total == IF Abs(total_loss) >= Abs(r.max_total_loss)
                 THEN [violations |-> <<"Total loss limit exceeded">>,
                       warnings |-> <<>>]
                 ELSE IF 5 * Abs(total_loss) >= 4 * Abs(r.max_total_loss)
                 THEN [violations |-> <<>>,
                       warnings |-> <<"Approaching total loss limit">>]
                 ELSE [violations |-> <<>>, warnings |-> <<>>]
        violations == daily.violations \o total.violations
    IN  [compliant |-> violations = <<>>,
         violations |-> violations,
         warnings |-> daily.warnings \o total.warnings]

CheckFtmoCompliance ==
    \E profit \in Profits, balance \in Balances :
        LET account_info == [balance |-> balance, equity |-> balance + profit,
                             profit |-> profit]
        IN  /\ call' = [op |-> "check_ftmo_compliance",
                        account_info |-> account_info,
                        result |-> check_ftmo_compliance(rules, account_info)]
            /\ UNCHANGED <<rules, serverOffset, daily_stats, last_reset, today,
                           providers, active_symbols, signal_cache, last_signal,
                           emitted, peak_balance, daily_equity_high,
                           observed, queued_closures, positions, market_is_open,
                           session_open, account, now, next_ticket, tick>>

NextPure ==
    \/ CheckPositionAllowed
    \/ CheckPositionAllowedLegacy
    \/ CheckPositionDuration
    \/ CheckFtmoCompliance

SpecPure == InitPure /\ [][NextPure]_vars

---------------------------------------------------------------------------
(* Claims on the pure checks *)

IsAllowedCall == call.op \in {"check_position_allowed", "check_position_allowed_legacy"}

\* C1: check_position_allowed returns allowed = false if and only if
\* profit <= max_daily_loss, or balance <= max_total_loss, or the requested
\* lot size > max_lots.
C1_AllowedIffNoLimitBreached ==
    IsAllowedCall =>
        (call.result.allowed = FALSE
            <=> \/ call.account_info.profit <= rules.max_daily_loss
                \/ call.account_info.balance <= rules.max_total_loss
                \/ call.position_size > rules.max_lots)

\* A call rejected for the total-loss limit alone, and nothing else.
C1_Witness ==
    /\ call.op = "check_position_allowed"
    /\ call.account_info.profit > rules.max_daily_loss
    /\ call.account_info.balance <= rules.max_total_loss
    /\ call.position_size <= rules.max_lots
    /\ call.result.allowed = FALSE

\* C2: when several rejection conditions hold, the reason is that of the
\* first failing one in the order daily loss, total loss, lot size; whenever
\* profit <= max_daily_loss the reason is "Daily loss limit reached".
C2_FirstFailingConditionWins ==
    call.op = "check_position_allowed" =>
        /\ call.account_info.profit <= rules.max_daily_loss
              => call.result.reason = "Daily loss limit reached"
        /\ (/\ call.account_info.profit > rules.max_daily_loss
            /\ call.account_info.balance <= rules.max_total_loss)
              => call.result.reason = "Total loss limit reached"

\* C3: for a numeric (well-formed) open time and broker data at hand,
\* needs_closure and warning are decided by the time the position has really
\* been open, open time and now taken in one reference timezone.
C3_DurationInOneTimezone ==
    (/\ call.op = "check_position_duration"
     /\ call.position.time.fmt = "num"
     /\ call.tick_available)
    => LET elapsed == call.current_time - call.opened
       IN  /\ call.result.duration_seconds = elapsed
           /\ call.result.needs_closure
                 = (elapsed >= 60 * rules.max_position_duration)
           /\ call.result.warning
                 = (elapsed * 100 >= 60 * rules.max_position_duration
                                        * rules.warning_threshold)

---------------------------------------------------------------------------
(* The high-water marks: monitor_drawdown, monitor_ftmo_status,            *)
(* monitor_trading_status                                                  *)

SetTo(v) == [has |-> TRUE, val |-> v]

Max(S) == CHOOSE m \in S : \A x \in S : x <= m

\* x / y * 100 when y is not 0, else 0: kept as the fraction [num, den].
Percent(x, y) == IF y # 0 THEN [num |-> x * 100, den |-> y]
                          ELSE [num |-> 0, den |-> 1]

\* pct >= k
PercentAtLeast(pct, k) ==
    IF pct.den > 0 THEN pct.num >= k * pct.den ELSE pct.num <= k * pct.den

\* FTMORuleManager._get_drawdown_status
_get_drawdown_status(drawdown_percent) ==
    IF PercentAtLeast(drawdown_percent, 9) THEN "CRITICAL"
    ELSE IF PercentAtLeast(drawdown_percent, 7) THEN "WARNING"
    ELSE IF PercentAtLeast(drawdown_percent, 5) THEN "CAUTION"
    ELSE "NORMAL"

\* A variant that measures the drawdown before it ratchets the peak.
monitor_drawdown_stale_peak(peak, high, account_info) ==
    LET current_balance == account_info.balance
        current_equity == account_info.equity
        peak1 == IF ~peak.has THEN SetTo(current_balance) ELSE peak
        high1 == IF ~high.has THEN SetTo(current_equity) ELSE high
        peak2 == IF current_balance > peak1.val THEN SetTo(current_balance)
                                                ELSE peak1
        absolute_drawdown == peak1.val - current_equity
        percentage_drawdown == Percent(absolute_drawdown, peak1.val)
        high2 == IF current_equity > high1.val THEN SetTo(current_equity)
                                               ELSE high1
        daily_drawdown == high2.val - current_equity
    IN  [peak_balance |-> peak2,
         daily_equity_high |-> high2,
         result |-> [current_drawdown |-> absolute_drawdown,
                     drawdown_percent |-> percentage_drawdown,
                     peak_balance |-> peak1.val,
                     current_equity |-> current_equity,
                     daily_drawdown |-> daily_drawdown,
                     daily_drawdown_percent |-> Percent(daily_drawdown, high2.val),
                     status |-> _get_drawdown_status(percentage_drawdown)]]

\* FTMORuleManager.monitor_drawdown on the snapshot get_account_info returned:
\* the new peak_balance, the new daily_equity_high and the report.
monitor_drawdown(peak, high, account_info) ==
    LET current_balance == account_info.balance
        current_equity == account_info.equity
        peak1 == IF ~peak.has THEN SetTo(current_balance) ELSE peak
        high1 == IF ~high.has THEN SetTo(current_equity) ELSE high
        peak2 == IF current_balance > peak1.val THEN SetTo(current_balance)
                                                ELSE peak1
        absolute_drawdown == peak2.val - current_equity
        percentage_drawdown == Percent(absolute_drawdown, peak2.val)
        high2 == IF current_equity > high1.val THEN SetTo(current_equity)
                                               ELSE high1
        daily_drawdown == high2.val - current_equity
    IN  [peak_balance |-> peak2,
         daily_equity_high |-> high2,
         result |-> [current_drawdown |-> absolute_drawdown,
                     drawdown_percent |-> percentage_drawdown,
                     peak_balance |-> peak2.val,
                     current_equity |-> current_equity,
                     daily_drawdown |-> daily_drawdown,
                     daily_drawdown_percent |-> Percent(daily_drawdown, high2.val),
                     status |-> _get_drawdown_status(percentage_drawdown)]]

\* A variant that takes every balance it reads as the new peak.
monitor_ftmo_status_follow_balance(peak, account_info) ==
    LET peak1 == SetTo(account_info.balance)
    IN  [peak_balance |-> peak1,
         result |-> [drawdown |-> peak1.val - account_info.equity,
                     drawdown_percent |->
                         Percent(peak1.val - account_info.equity, peak1.val),
                     error |-> FALSE]]

\* FTMORuleManager.monitor_ftmo_status: the new peak_balance and the
\* account_status part of the report.
monitor_ftmo_status(peak, account_info) ==
    LET current_balance == account_info.balance
        current_equity == account_info.equity
        peak1 == IF ~peak.has \/ current_balance > peak.val
                 THEN SetTo(current_balance) ELSE peak
        drawdown == peak1.val - current_equity
    IN  [peak_balance |-> peak1,
         result |-> [drawdown |-> drawdown,
                     drawdown_percent |-> Percent(drawdown, peak1.val),
                     error |-> FALSE]]

\* FTMORuleManager.monitor_trading_status: the new peak_balance and the
\* drawdown part of the report.  The share of the daily loss limit in use is
\* a division by abs(max_daily_loss), taken before the peak is touched.
monitor_trading_status(r, peak, account_info) ==
    IF account_info.profit < 0 /\ r.max_daily_loss = 0
    THEN [peak_balance |-> peak, result |-> [error |-> TRUE]]
    ELSE LET peak1 == IF ~peak.has THEN SetTo(account_info.balance)
                      ELSE IF account_info.balance > peak.val
                      THEN SetTo(account_info.balance)
                      ELSE peak
             current_drawdown == peak1.val - account_info.balance
         IN  [peak_balance |-> peak1,
              result |-> [current_drawdown |-> current_drawdown,
                          percentage |-> Percent(current_drawdown, peak1.val),
                          peak_balance |-> peak1.val,
                          error |-> FALSE]]

---------------------------------------------------------------------------
(* SpecDrawdown: the three monitors called in any order, each on an        *)
(* arbitrary account snapshot                                              *)

DrawdownBalances == {0, 10, 20}
DrawdownProfits == {-2, -1, 0, 1}
Snapshots ==
    {[balance |-> b, equity |-> b + p, profit |-> p] :
        b \in DrawdownBalances, p \in DrawdownProfits}

InitDrawdown ==
    /\ rules = LoopRules
    /\ serverOffset = EetOffset
    /\ Constructed

MonitorDrawdown ==
    \E account_info \in Snapshots :
        LET m == monitor_drawdown(peak_balance, daily_equity_high, account_info)
        IN  /\ peak_balance' = m.peak_balance
            /\ daily_equity_high' = m.daily_equity_high
            /\ observed' = observed \cup {account_info.balance}
            /\ call' = [op |-> "monitor_drawdown",
                        account_info |-> account_info,
                        result |-> m.result,
                        repeated |-> /\ call.op = "monitor_drawdown"
                                     /\ call.account_info = account_info]
            /\ UNCHANGED <<rules, serverOffset, daily_stats, last_reset, today,
                   providers, active_symbols, signal_cache, last_signal, emitted, queued_closures, positions,
                           market_is_open, session_open, account, now,
                           next_ticket, tick>>

MonitorFtmoStatus ==
    \E account_info \in Snapshots :
        LET m == monitor_ftmo_status(peak_balance, account_info)
        IN  /\ peak_balance' = m.peak_balance
            /\ observed' = observed \cup {account_info.balance}
            /\ call' = [op |-> "monitor_ftmo_status",
                        account_info |-> account_info,
                        result |-> m.result]
            /\ UNCHANGED <<rules, serverOffset, daily_stats, last_reset, today,
                   providers, active_symbols, signal_cache, last_signal, emitted, daily_equity_high,
                           queued_closures, positions, market_is_open,
                           session_open, account, now, next_ticket, tick>>

MonitorTradingStatus ==
    \E account_info \in Snapshots :
        LET m == monitor_trading_status(rules, peak_balance, account_info)
        IN  /\ peak_balance' = m.peak_balance
            /\ observed' = IF m.result.error THEN observed
                           ELSE observed \cup {account_info.balance}
            /\ call' = [op |-> "monitor_trading_status",
                        account_info |-> account_info,
                        result |-> m.result]
            /\ UNCHANGED <<rules, serverOffset, daily_stats, last_reset, today,
                   providers, active_symbols, signal_cache, last_signal, emitted, daily_equity_high,
                           queued_closures, positions, market_is_open,
                           session_open, account, now, next_ticket, tick>>

NextDrawdown ==
    \/ MonitorDrawdown
    \/ MonitorFtmoStatus
    \/ MonitorTradingStatus

SpecDrawdown == InitDrawdown /\ [][NextDrawdown]_vars

\* C9: after any sequence of monitor calls peak_balance never decreases and
\* is never unset or reset: once set it is the largest balance read so far.
C9_PeakIsHighWaterMark ==
    [][/\ peak_balance.has
            => (peak_balance'.has /\ peak_balance'.val >= peak_balance.val)
       /\ peak_balance'.has
            => (observed' # {} /\ peak_balance'.val = Max(observed'))]_vars

\* A monitor has just read a balance below the stored peak.
C9_Witness ==
    /\ call.op \in {"monitor_drawdown", "monitor_ftmo_status",
                    "monitor_trading_status"}
    /\ peak_balance.has
    /\ call.account_info.balance < peak_balance.val

\* C10: a second monitor_drawdown call on the same snapshot leaves
\* peak_balance and daily_equity_high as the first left them and returns the
\* same report; the peak changes only when the balance read strictly exceeds
\* the stored peak.
C10_MonitorDrawdownIdempotent ==
    [][/\ (/\ call.op = "monitor_drawdown"
           /\ call'.op = "monitor_drawdown"
           /\ call'.account_info = call.account_info)
          => /\ peak_balance' = peak_balance
             /\ daily_equity_high' = daily_equity_high
             /\ call'.result = call.result
       /\ (/\ call'.op = "monitor_drawdown"
           /\ peak_balance.has
           /\ peak_balance' # peak_balance)
          => call'.account_info.balance > peak_balance.val]_vars

\* monitor_drawdown has just been called a second time on the snapshot that
\* set a new peak.
C10_Witness ==
    /\ call.op = "monitor_drawdown"
    /\ call.repeated
    /\ peak_balance.val = call.account_info.balance
    /\ Cardinality(observed) >= 2

---------------------------------------------------------------------------
(* The broker *)

Symbols == {"EURUSD", "GBPUSD"}
TicketIds == 1 .. MaxTickets

Tickets(ps) == {p.ticket : p \in ps}

\* The open positions in the order positions_get lists them (by ticket).
RECURSIVE ByTicket(_)
ByTicket(ps) ==
    IF ps = {} THEN <<>>
    ELSE LET first == CHOOSE p \in ps : \A q \in ps : p.ticket <= q.ticket
         IN  <<first>> \o ByTicket(ps \ {first})

RECURSIVE SortedTickets(_)
SortedTickets(S) ==
    IF S = {} THEN <<>>
    ELSE LET t == CHOOSE x \in S : \A y \in S : x <= y
         IN  <<t>> \o SortedTickets(S \ {t})

\* How a close_trade(ticket) call ends: the order is done, the order is
\* refused (retcode, not connected, position not found), or the call raises
\* (order_send or symbol_info_tick returned None).
CloseOutcomes == {"done", "refused", "raises"}

\* The ending of a call on a ticket the broker no longer holds is "Position
\* not found".
Ending(outcome, ticket, ps) ==
    IF outcome = "done" /\ ticket \notin Tickets(ps) THEN "refused" ELSE outcome

\* A position is filled at the broker (an order of the bot or of the
\* account's owner) and stamped with the server clock.
BrokerOpensPosition ==
    /\ next_ticket <= MaxTickets
    /\ \E symbol \in Symbols :
        positions' = positions \cup
            {[ticket |-> next_ticket, symbol |-> symbol,
              time |-> [fmt |-> "num", stamp |-> now + serverOffset]]}
    /\ next_ticket' = next_ticket + 1
    /\ call' = NoCall
    /\ tick' = NoTick
    /\ UNCHANGED <<rules, serverOffset, daily_stats, last_reset, today,
                   providers, active_symbols, signal_cache, last_signal, emitted, peak_balance, daily_equity_high,
                   observed, queued_closures, market_is_open, session_open,
                   account, now>>

\* The market opens or closes.
MarketChanges ==
    /\ market_is_open' = ~market_is_open
    /\ call' = NoCall
    /\ tick' = NoTick
    /\ UNCHANGED <<rules, serverOffset, daily_stats, last_reset, today,
                   providers, active_symbols, signal_cache, last_signal, emitted, peak_balance, daily_equity_high,
                   observed, queued_closures, positions, session_open,
                   account, now, next_ticket>>

\* TradingLogic.max_total_positions
max_total_positions == 3

---------------------------------------------------------------------------
(* The queued closures of the rule engine *)

\* One pass over todo, the tickets still to handle; q is the queue and ps
\* the broker's open positions as left by the tickets handled so far.
RECURSIVE ProcessQueued(_, _, _, _)
ProcessQueued(todo, q, ps, outcome) ==
    IF todo = <<>>
    THEN [queued |-> q, positions |-> ps, requests |-> <<>>, succeeded |-> {}]
    ELSE LET ticket == Head(todo)
             ending == Ending(outcome[ticket], ticket, ps)
             success == ending = "done"
             rest == ProcessQueued(Tail(todo),
                                   IF success THEN q \ {ticket} ELSE q,
                                   IF success
                                   THEN {p \in ps : p.ticket # ticket} ELSE ps,
                                   outcome)
         IN  [rest EXCEPT !.requests = <<ticket>> \o rest.requests,
                          !.succeeded = IF success
                                        THEN rest.succeeded \cup {ticket}
                                        ELSE rest.succeeded]

\* A variant that takes a ticket off the queue once its close was attempted.
process_queued_closures_drop_attempted(q, ps, open, outcome) ==
    IF q = {} \/ ~open
    THEN [queued |-> q, positions |-> ps, requests |-> <<>>, succeeded |-> {}]
    ELSE [ProcessQueued(SortedTickets(q), q, ps, outcome) EXCEPT !.queued = {}]

\* A variant without the market test.
process_queued_closures_any_market(q, ps, open, outcome) ==
    IF q = {}
    THEN [queued |-> q, positions |-> ps, requests |-> <<>>, succeeded |-> {}]
    ELSE ProcessQueued(SortedTickets(q), q, ps, outcome)

\* FTMORuleManager.process_queued_closures: q the queue, ps the broker's
\* open positions, open the answer of market_is_open, outcome how the broker
\* ends each close_trade call.
process_queued_closures(q, ps, open, outcome) ==
    IF q = {} \/ ~open
    THEN [queued |-> q, positions |-> ps, requests |-> <<>>, succeeded |-> {}]
    ELSE ProcessQueued(SortedTickets(q), q, ps, outcome)

InitQueue ==
    /\ rules = LoopRules
    /\ serverOffset = EetOffset
    /\ Constructed

\* FTMORuleManager._add_to_queued_closures
AddToQueuedClosures ==
    \E ticket \in TicketIds :
        /\ queued_closures' = queued_closures \cup {ticket}
        /\ call' = [op |-> "_add_to_queued_closures", ticket |-> ticket]
        /\ UNCHANGED <<rules, serverOffset, daily_stats, last_reset, today,
                   providers, active_symbols, signal_cache, last_signal, emitted, peak_balance, daily_equity_high,
                       observed, positions, market_is_open, session_open,
                       account, now, next_ticket, tick>>

ProcessQueuedClosures ==
    \E outcome \in [queued_closures -> CloseOutcomes] :
        LET r == process_queued_closures(queued_closures, positions,
                                         market_is_open, outcome)
        IN  /\ queued_closures' = r.queued
            /\ positions' = r.positions
            /\ call' = [op |-> "process_queued_closures",
                        market_open |-> market_is_open,
                        queued_before |-> queued_closures,
                        requests |-> r.requests,
                        done |-> {t \in queued_closures :
                                    /\ outcome[t] = "done"
                                    /\ t \in Tickets(positions)},
                        repeated |-> call.op = "process_queued_closures"]
            /\ UNCHANGED <<rules, serverOffset, daily_stats, last_reset, today,
                   providers, active_symbols, signal_cache, last_signal, emitted, peak_balance,
                           daily_equity_high, observed, market_is_open,
                           session_open, account, now, next_ticket, tick>>

NextQueue ==
    \/ BrokerOpensPosition
    \/ MarketChanges
    \/ AddToQueuedClosures
    \/ ProcessQueuedClosures

SpecQueue == InitQueue /\ [][NextQueue]_vars

Count(seq, x) == Cardinality({i \in DOMAIN seq : seq[i] = x})

\* C6: with the market open, one process_queued_closures call sends exactly
\* one close request for each ticket queued when it started and for no other
\* ticket, takes off the queue exactly the tickets whose close succeeded and
\* leaves those whose close failed or raised.
C6_OneRequestPerQueuedTicket ==
    (call.op = "process_queued_closures" /\ call.market_open) =>
        /\ \A t \in TicketIds :
              Count(call.requests, t) = IF t \in call.queued_before THEN 1 ELSE 0
        /\ queued_closures = call.queued_before \ call.done

\* A call that closed one queued ticket and failed on another.
C6_Witness ==
    /\ call.op = "process_queued_closures"
    /\ call.market_open
    /\ call.done # {}
    /\ call.queued_before \ call.done # {}
    /\ queued_closures # {}

\* C7: while the market is closed process_queued_closures sends no close
\* request and leaves the queue as it was, however often it is called.
C7_NoOpWhileMarketClosed ==
    (call.op = "process_queued_closures" /\ ~call.market_open) =>
        /\ call.requests = <<>>
        /\ queued_closures = call.queued_before

\* A second call in a row with the market closed and tickets queued for
\* positions the broker holds.
C7_Witness ==
    /\ call.op = "process_queued_closures"
    /\ ~call.market_open
    /\ call.repeated
    /\ queued_closures \cap Tickets(positions) # {}

---------------------------------------------------------------------------
(* SpecDaily: the daily-scoped state of the rule engine across local days   *)

DaySeconds == 24 * 60 * 60

\* datetime.date() of a clock value.
Date(t) == t \div DaySeconds

Min(S) == CHOOSE m \in S : \A x \in S : m <= x

\* A variant that never starts a new day.
monitor_daily_performance_no_reset(stats, reset, current_time, account_info) ==
    [daily_stats |->
        [stats EXCEPT !.total_profit = account_info.profit,
                      !.max_drawdown = IF account_info.profit < stats.max_drawdown
                                       THEN account_info.profit
                                       ELSE stats.max_drawdown],
     last_reset |-> reset]

\* FTMORuleManager.monitor_daily_performance: the new daily_stats and
\* last_reset.  The keys previous_profit, profit_change and
\* trading_day_logged, which nothing reads back, are left out.
monitor_daily_performance(stats, reset, current_time, account_info) ==
    LET new_day == Date(current_time) > Date(reset)
        stats1 == IF new_day
                  THEN [total_profit |-> 0, positions_opened |-> 0,
                        max_drawdown |-> 0]
                  ELSE stats
        current_profit == account_info.profit
    IN  [daily_stats |->
            [stats1 EXCEPT !.total_profit = current_profit,
                           !.max_drawdown = IF current_profit < stats1.max_drawdown
                                            THEN current_profit
                                            ELSE stats1.max_drawdown],
         last_reset |-> IF new_day THEN current_time ELSE reset]

DailyProfits == {-2, -1, 1}
DailySnapshots ==
    {[balance |-> 10, equity |-> 10 + p, profit |-> p] : p \in DailyProfits}

\* What was read on the local date of current_time, once v is read too.
ReadToday(day, current_time, field, v) ==
    LET fresh == IF Date(current_time) > day.date
                 THEN [date |-> Date(current_time), equities |-> {},
                       profits |-> {}]
                 ELSE day
    IN  [fresh EXCEPT ![field] = @ \cup {v}]

InitDaily ==
    /\ rules = LoopRules
    /\ serverOffset = EetOffset
    /\ Constructed

MonitorDailyPerformance ==
    \E account_info \in DailySnapshots :
        LET m == monitor_daily_performance(daily_stats, last_reset, now,
                                           account_info)
        IN  /\ daily_stats' = m.daily_stats
            /\ last_reset' = m.last_reset
            /\ today' = ReadToday(today, now, "profits", account_info.profit)
            /\ call' = [op |-> "monitor_daily_performance",
                        account_info |-> account_info,
                        new_day |-> Date(now) > Date(last_reset),
                        last_reset |-> last_reset]
            /\ UNCHANGED <<rules, serverOffset, providers, active_symbols,
                           signal_cache, last_signal, emitted, peak_balance, daily_equity_high,
                           observed, queued_closures, positions,
                           market_is_open, session_open, account, now,
                           next_ticket, tick>>

\* monitor_drawdown called by the loop on the local date of the clock.
MonitorDrawdownToday ==
    \E account_info \in DailySnapshots :
        LET m == monitor_drawdown(peak_balance, daily_equity_high, account_info)
        IN  /\ peak_balance' = m.peak_balance
            /\ daily_equity_high' = m.daily_equity_high
            /\ observed' = observed \cup {account_info.balance}
            /\ today' = ReadToday(today, now, "equities", account_info.equity)
            /\ call' = [op |-> "monitor_drawdown",
                        account_info |-> account_info,
                        result |-> m.result,
                        repeated |-> FALSE]
            /\ UNCHANGED <<rules, serverOffset, daily_stats, last_reset,
                           providers, active_symbols, signal_cache, last_signal, emitted,
                           queued_closures, positions, market_is_open,
                           session_open, account, now, next_ticket, tick>>

\* Half a day goes by.
HalfDayPasses ==
    /\ now < MaxDays * DaySeconds
    /\ now' = now + DaySeconds \div 2
    /\ call' = NoCall
    /\ UNCHANGED <<rules, serverOffset, daily_stats, last_reset, today,
                   providers, active_symbols, signal_cache, last_signal, emitted, peak_balance,
                   daily_equity_high, observed, queued_closures, positions,
                   market_is_open, session_open, account, next_ticket, tick>>

NextDaily ==
    \/ MonitorDailyPerformance
    \/ MonitorDrawdownToday
    \/ HalfDayPasses

SpecDaily == InitDaily /\ [][NextDaily]_vars

\* C11: after every monitor_drawdown call daily_equity_high is the highest
\* equity read on the local date of the call, and the reported daily
\* drawdown is measured against it, never against an earlier day's high.
C11_DailyHighResetsAtDayBoundary ==
    (call.op = "monitor_drawdown" /\ today.equities # {}) =>
        /\ daily_equity_high.val = Max(today.equities)
        /\ call.result.daily_drawdown
               = Max(today.equities) - call.account_info.equity

\* C12: after every monitor_daily_performance call total_profit is the
\* profit just read and max_drawdown is the minimum of 0 and the profits
\* read on the local date of the call; last_reset moves to the time of the
\* call exactly when the call is the first on a later date.
C12_DailyStatsResetOnNewDay ==
    call.op = "monitor_daily_performance" =>
        /\ daily_stats.total_profit = call.account_info.profit
        /\ daily_stats.positions_opened = 0
        /\ daily_stats.max_drawdown = Min({0} \cup today.profits)
        /\ last_reset = IF call.new_day THEN now ELSE call.last_reset

\* The first call of a later day reads a profit above the loss recorded the
\* day before.
C12_Witness ==
    /\ call.op = "monitor_daily_performance"
    /\ call.new_day
    /\ Date(now) > 0
    /\ call.account_info.profit = -1
    /\ daily_stats.max_drawdown = -1
    /\ last_reset = now

---------------------------------------------------------------------------
(* SignalManager *)

\* SignalType, in the order get_consensus_signal counts the types.
SignalTypes == <<"BUY", "SELL", "CLOSE", "NONE">>

\* The provider names, in the order the providers are iterated.
ProviderOrder == <<"MA", "RSI", "NEWS">>
ProviderNames == {ProviderOrder[i] : i \in DOMAIN ProviderOrder}

\* The symbol lists a provider is constructed with.
ProviderSymbols == {{"EURUSD"}, {"EURUSD", "GBPUSD"}}

\* What calculate_signal of one provider gives: a valid signal of a type, a
\* signal that fails Signal.is_valid (or None), or an exception.
ProviderAnswers == {"BUY", "SELL", "CLOSE", "NONE", "invalid", "raises"}

\* The validity of the signal cache, in seconds.
CacheSeconds == 60

\* SignalManager.add_provider
add_provider(ps, act, name, symbols) ==
    IF name \in DOMAIN ps
    THEN [providers |-> ps, active_symbols |-> act, result |-> FALSE]
    ELSE [providers |-> [n \in DOMAIN ps \cup {name} |->
                            IF n = name
                            THEN [is_active |-> TRUE, symbols |-> symbols]
                            ELSE ps[n]],
          active_symbols |-> act \cup symbols,
          result |-> TRUE]

\* SignalManager._update_active_symbols
_update_active_symbols(ps) ==
    UNION {ps[n].symbols : n \in {m \in DOMAIN ps : ps[m].is_active}}

\* SignalManager.remove_provider
remove_provider(ps, act, name) ==
    IF name \notin DOMAIN ps
    THEN [providers |-> ps, active_symbols |-> act, result |-> FALSE]
    ELSE LET rest == [n \in DOMAIN ps \ {name} |-> ps[n]]
         IN  [providers |-> rest,
              active_symbols |-> _update_active_symbols(rest),
              result |-> TRUE]

\* The provider loop of get_signals over the names still to visit.
RECURSIVE CollectSignals(_, _, _, _)
CollectSignals(names, ps, symbol, answer) ==
    IF names = <<>>
    THEN [signals |-> <<>>, invoked |-> {}]
    ELSE LET name == Head(names)
             rest == CollectSignals(Tail(names), ps, symbol, answer)
         IN  IF name \notin DOMAIN ps
             THEN rest
             ELSE IF ~ps[name].is_active \/ symbol \notin ps[name].symbols
             THEN rest
             ELSE [signals |->
                       IF answer[name] \notin {"invalid", "raises"}
                       THEN <<[type |-> answer[name], provider |-> name]>>
                                \o rest.signals
                       ELSE rest.signals,
                   invoked |-> rest.invoked \cup {name}]

\* A variant whose cache never expires: a cached list is returned whatever
\* its age.
get_signals_never_expires(ps, act, cache, symbol, current_time, candles, answer) ==
    IF symbol \in DOMAIN cache
    THEN [signals |-> cache[symbol].signals, invoked |-> {}, cache |-> cache,
          hit |-> TRUE]
    ELSE IF DOMAIN ps = {} \/ symbol \notin act \/ ~candles
    THEN [signals |-> <<>>, invoked |-> {}, cache |-> cache, hit |-> FALSE]
    ELSE LET c == CollectSignals(ProviderOrder, ps, symbol, answer)
         IN  [signals |-> c.signals, invoked |-> c.invoked,
              cache |-> [y \in DOMAIN cache \cup {symbol} |->
                            IF y = symbol
                            THEN [time |-> current_time, signals |-> c.signals]
                            ELSE cache[y]],
              hit |-> FALSE]

\* SignalManager.get_signals: the list returned, the providers whose
\* calculate_signal was invoked and the new cache.  candles tells whether
\* _get_market_data returned any.  The evaluation the manager runs on a
\* non-empty list only annotates the signals; it removes none.
get_signals(ps, act, cache, symbol, current_time, candles, answer) ==
    IF /\ symbol \in DOMAIN cache
       /\ current_time - cache[symbol].time < CacheSeconds
    THEN [signals |-> cache[symbol].signals, invoked |-> {}, cache |-> cache,
          hit |-> TRUE]
    ELSE IF DOMAIN ps = {} \/ symbol \notin act \/ ~candles
    THEN [signals |-> <<>>, invoked |-> {}, cache |-> cache, hit |-> FALSE]
    ELSE LET c == CollectSignals(ProviderOrder, ps, symbol, answer)
         IN  [signals |-> c.signals, invoked |-> c.invoked,
              cache |-> [y \in DOMAIN cache \cup {symbol} |->
                            IF y = symbol
                            THEN [time |-> current_time, signals |-> c.signals]
                            ELSE cache[y]],
              hit |-> FALSE]

\* The providers a get_signals call asks: none when the cache answers or
\* the call returns early.
Asked(ps, act, cache, symbol, current_time, candles) ==
    IF \/ (symbol \in DOMAIN cache
             /\ current_time - cache[symbol].time < CacheSeconds)
       \/ symbol \notin act
       \/ ~candles
    THEN {}
    ELSE {n \in DOMAIN ps : ps[n].is_active /\ symbol \in ps[n].symbols}

CountType(signals, t) ==
    Cardinality({i \in DOMAIN signals : signals[i].type = t})

NoSignal == [present |-> FALSE]

\* SignalManager._create_consensus_signal, without the averaged prices.
_create_consensus_signal(signal_type, symbol, signals) ==
    IF CountType(signals, signal_type) = 0
    THEN [present |-> TRUE, type |-> "NONE", symbol |-> symbol]
    ELSE [present |-> TRUE, type |-> signal_type, symbol |-> symbol]

\* The loop over signal_counts: the first type, in the order of the
\* dictionary, whose share reaches the threshold (in percent).
RECURSIVE FirstReaching(_, _, _, _)
FirstReaching(types, symbol, signals, threshold) ==
    IF types = <<>>
    THEN NoSignal
    ELSE IF CountType(signals, Head(types)) * 100 >= threshold * Len(signals)
    THEN _create_consensus_signal(Head(types), symbol, signals)
    ELSE FirstReaching(Tail(types), symbol, signals, threshold)

\* SignalManager.get_consensus_signal on the list get_signals returned.
get_consensus_signal(signals, symbol, threshold) ==
    IF signals = <<>> THEN NoSignal
    ELSE FirstReaching(SignalTypes, symbol, signals, threshold)

\* The values of the setting signal_consensus_threshold, in percent.
Thresholds == {30, 50, 66, 70, 100}

---------------------------------------------------------------------------
(* SpecConsensus: consensus over three registered providers *)

InitConsensus ==
    /\ rules = LoopRules
    /\ serverOffset = EetOffset
    /\ call = NoCall
    /\ peak_balance = Unset
    /\ daily_equity_high = Unset
    /\ observed = {}
    /\ queued_closures = {}
    /\ positions = {}
    /\ market_is_open = FALSE
    /\ session_open = FALSE
    /\ account = StartAccount
    /\ now = 0
    /\ next_ticket = 1
    /\ tick = NoTick
    /\ daily_stats = [total_profit |-> 0, positions_opened |-> 0,
                      max_drawdown |-> 0]
    /\ last_reset = 0
    /\ today = NoDay
    /\ providers = [n \in ProviderNames |->
                       [is_active |-> TRUE, symbols |-> {"EURUSD", "GBPUSD"}]]
    /\ active_symbols = {"EURUSD", "GBPUSD"}
    /\ signal_cache = << >>
    /\ last_signal = << >>
    /\ emitted = << >>

GetConsensusSignal ==
    \E threshold \in Thresholds, candles \in BOOLEAN :
    \E answer \in [Asked(providers, active_symbols, signal_cache, "EURUSD",
                          now, candles) -> ProviderAnswers] :
        LET symbol == "EURUSD"
            g == get_signals(providers, active_symbols, signal_cache, symbol,
                             now, candles, answer)
        IN  /\ signal_cache' = g.cache
            /\ call' = [op |-> "get_consensus_signal",
                        symbol |-> symbol,
                        threshold |-> threshold,
                        signals |-> g.signals,
                        result |-> get_consensus_signal(g.signals, symbol,
                                                        threshold)]
            /\ UNCHANGED <<last_signal, emitted, rules, serverOffset, daily_stats,
                           last_reset, today,
                           providers, active_symbols, peak_balance,
                           daily_equity_high, observed, queued_closures,
                           positions, market_is_open, session_open, account,
                           now, next_ticket, tick>>

HalfMinutePasses ==
    /\ now < MaxHalfMinutes * 30
    /\ now' = now + 30
    /\ call' = NoCall
    /\ UNCHANGED <<rules, serverOffset, daily_stats, last_reset, today,
                   providers, active_symbols, signal_cache, last_signal, emitted, peak_balance,
                   daily_equity_high, observed, queued_closures, positions,
                   market_is_open, session_open, account, next_ticket, tick>>

NextConsensus ==
    \/ GetConsensusSignal
    \/ HalfMinutePasses

SpecConsensus == InitConsensus /\ [][NextConsensus]_vars

\* The largest number of signals of one type.
PluralityCount(signals) ==
    Max({CountType(signals, SignalTypes[i]) : i \in DOMAIN SignalTypes})

\* C13: for a non-empty signal list get_consensus_signal returns a signal
\* exactly when the plurality direction's share reaches the threshold, and
\* the signal returned has a plurality direction.
C13_ConsensusIsPluralityAtThreshold ==
    (call.op = "get_consensus_signal" /\ call.signals # <<>>) =>
        /\ call.result.present
              <=> PluralityCount(call.signals) * 100
                      >= call.threshold * Len(call.signals)
        /\ call.result.present
              => CountType(call.signals, call.result.type)
                     = PluralityCount(call.signals)

---------------------------------------------------------------------------
(* SpecSignals: providers come and go while signals are queried *)

\* The providers that are registered, removed and switched in this
\* specification, and what their calculate_signal gives.
SomeProviders == {"MA", "RSI"}
SomeAnswers == {"BUY", "invalid", "raises"}

InitSignals ==
    /\ rules = LoopRules
    /\ serverOffset = EetOffset
    /\ Constructed

AddProvider ==
    \E name \in SomeProviders, symbols \in ProviderSymbols :
        LET a == add_provider(providers, active_symbols, name, symbols)
        IN  /\ providers' = a.providers
            /\ active_symbols' = a.active_symbols
            /\ call' = [op |-> "add_provider", name |-> name,
                        result |-> a.result]
            /\ UNCHANGED <<rules, serverOffset, daily_stats, last_reset, today,
                           signal_cache, last_signal, emitted, peak_balance, daily_equity_high,
                           observed, queued_closures, positions,
                           market_is_open, session_open, account, now,
                           next_ticket, tick>>

RemoveProvider ==
    \E name \in SomeProviders :
        LET a == remove_provider(providers, active_symbols, name)
        IN  /\ providers' = a.providers
            /\ active_symbols' = a.active_symbols
            /\ call' = [op |-> "remove_provider", name |-> name,
                        result |-> a.result]
            /\ UNCHANGED <<rules, serverOffset, daily_stats, last_reset, today,
                           signal_cache, last_signal, emitted, peak_balance, daily_equity_high,
                           observed, queued_closures, positions,
                           market_is_open, session_open, account, now,
                           next_ticket, tick>>

\* SignalProvider.set_active on a registered provider.
SetActive ==
    \E name \in DOMAIN providers, active \in BOOLEAN :
        /\ providers' = [providers EXCEPT ![name].is_active = active]
        /\ call' = [op |-> "set_active", name |-> name, active |-> active]
        /\ UNCHANGED <<rules, serverOffset, daily_stats, last_reset, today,
                       active_symbols, signal_cache, last_signal, emitted, peak_balance,
                       daily_equity_high, observed, queued_closures,
                       positions, market_is_open, session_open, account, now,
                       next_ticket, tick>>

GetSignals ==
    \E symbol \in Symbols, candles \in BOOLEAN :
    \E answer \in [Asked(providers, active_symbols, signal_cache, symbol, now,
                         candles) -> SomeAnswers] :
        LET g == get_signals(providers, active_symbols, signal_cache, symbol,
                             now, candles, answer)
            cached == symbol \in DOMAIN signal_cache
        IN  /\ signal_cache' = g.cache
            /\ call' = [op |-> "get_signals",
                        symbol |-> symbol,
                        candles |-> candles,
                        cached |-> cached,
                        age |-> IF cached THEN now - signal_cache[symbol].time
                                ELSE 0,
                        previous |-> IF cached THEN signal_cache[symbol].signals
                                     ELSE <<>>,
                        signals |-> g.signals,
                        invoked |-> g.invoked]
            /\ UNCHANGED <<last_signal, emitted, rules, serverOffset, daily_stats,
                           last_reset, today,
                           providers, active_symbols, peak_balance,
                           daily_equity_high, observed, queued_closures,
                           positions, market_is_open, session_open, account,
                           now, next_ticket, tick>>

NextSignals ==
    \/ AddProvider
    \/ RemoveProvider
    \/ SetActive
    \/ GetSignals
    \/ HalfMinutePasses

SpecSignals == InitSignals /\ [][NextSignals]_vars

\* The registered providers that are active and cover the symbol.
Covering(symbol) ==
    {n \in DOMAIN providers :
        providers[n].is_active /\ symbol \in providers[n].symbols}

\* The cache holds the list just returned, stamped with the time of the call.
Recached ==
    /\ call.symbol \in DOMAIN signal_cache
    /\ signal_cache[call.symbol] = [time |-> now, signals |-> call.signals]

\* The cache entry of the symbol is as it was before the call.
CacheKept ==
    /\ call.symbol \in DOMAIN signal_cache
    /\ signal_cache[call.symbol].signals = call.previous
    /\ now - signal_cache[call.symbol].time = call.age

\* C14 as stated: less than 60 seconds after the list of the symbol was
\* computed, get_signals returns that list and invokes no provider; 60
\* seconds or more after it, get_signals invokes the providers again and
\* replaces the cached list.
C14_CacheWindowAsStated ==
    (call.op = "get_signals" /\ call.cached) =>
        IF call.age < CacheSeconds
        THEN call.signals = call.previous /\ call.invoked = {} /\ CacheKept
        ELSE call.invoked # {} /\ Recached

\* C14 amended: within 60 seconds the cached list is returned and no
\* provider is invoked; from 60 seconds on the cached list is not used: when
\* the symbol is active and market data is available every active provider
\* covering the symbol is invoked and the new list replaces the cached one,
\* otherwise the call returns the empty list and leaves the cache alone.
C14_CacheWindow ==
    (call.op = "get_signals" /\ call.cached) =>
        IF call.age < CacheSeconds
        THEN call.signals = call.previous /\ call.invoked = {} /\ CacheKept
        ELSE IF call.candles /\ call.symbol \in active_symbols
        THEN call.invoked = Covering(call.symbol) /\ Recached
        ELSE call.signals = <<>> /\ call.invoked = {} /\ CacheKept

\* A call 60 seconds after the list was computed asked the providers and
\* cached a different list.
C14_Witness ==
    /\ call.op = "get_signals"
    /\ call.cached
    /\ call.age >= CacheSeconds
    /\ call.invoked # {}
    /\ call.signals # call.previous
    /\ Recached

\* C15: every signal get_signals returns comes from a provider that is
\* registered, active and covering the symbol when the call is made.
C15_SignalsOnlyFromActiveProviders ==
    call.op = "get_signals" =>
        \A i \in DOMAIN call.signals :
            call.signals[i].provider \in Covering(call.symbol)

\* The symbols of the registered providers that are active.
SymbolsOfActiveProviders ==
    UNION {providers[n].symbols :
               n \in {m \in DOMAIN providers : providers[m].is_active}}

\* C25: after any add_provider, remove_provider and set_active calls
\* active_symbols is the union of the symbol sets of the registered active
\* providers, and a get_signals call that misses the cache (with market data
\* available) invokes every registered active provider covering the symbol.
C25_ActiveSymbolsFollowProviders ==
    /\ active_symbols = SymbolsOfActiveProviders
    /\ (/\ call.op = "get_signals"
        /\ call.candles
        /\ ~(call.cached /\ call.age < CacheSeconds))
           => call.invoked = Covering(call.symbol)

---------------------------------------------------------------------------
(* SignalEvaluator *)

MaxSignals == 3

\* TradingLogic's limits; required_signal_strength (0.7) in percent.
max_positions_per_symbol == 1
min_risk_reward == 2
required_signal_strength == 70

\* The reward/risk ratio of a signal's prices.
RewardRisk == {1, 2}

\* A signal as the evaluator reads it: its type and the ratio
\* |take_profit - entry_price| / |entry_price - stop_loss|.
EvaluatedSignals ==
    [type : {SignalTypes[i] : i \in DOMAIN SignalTypes}, ratio : RewardRisk]

SignalLists ==
    UNION {[1 .. n -> EvaluatedSignals] : n \in 0 .. MaxSignals}

\* SignalEvaluator._calculate_signal_counts: the dictionary has no CLOSE
\* key, so a CLOSE signal raises KeyError and the handler returns zeros.
_calculate_signal_counts(signals) ==
    IF \E i \in DOMAIN signals : signals[i].type \notin {"BUY", "SELL", "NONE"}
    THEN [BUY |-> 0, SELL |-> 0, NONE |-> 0]
    ELSE [BUY |-> CountType(signals, "BUY"),
          SELL |-> CountType(signals, "SELL"),
          NONE |-> CountType(signals, "NONE")]

\* SignalEvaluator._calculate_consensus_strength, as the fraction num/den.
_calculate_consensus_strength(counts) ==
    LET total_signals == counts.BUY + counts.SELL + counts.NONE
    IN  IF total_signals = 0
        THEN [num |-> 0, den |-> 1]
        ELSE [num |-> Max({counts.BUY, counts.SELL, counts.NONE}),
              den |-> total_signals]

\* SignalEvaluator._check_position_limits over the open positions ps.
_check_position_limits(ps, symbol) ==
    LET symbol_positions == {p \in ps : p.symbol = symbol}
    IN  [passed |-> Cardinality(symbol_positions) < max_positions_per_symbol,
         current_positions |-> Cardinality(symbol_positions),
         max_allowed |-> max_positions_per_symbol]

\* SignalEvaluator._check_risk_reward_ratio: the first signal whose ratio
\* reaches the minimum passes the check.
_check_risk_reward_ratio(signals) ==
    [passed |-> \E i \in DOMAIN signals : signals[i].ratio >= min_risk_reward]

\* SignalEvaluator._determine_final_status
_determine_final_status(consensus_strength, position_check, risk_reward_check) ==
    LET trading_eligible ==
            /\ PercentAtLeast(Percent(consensus_strength.num,
                                      consensus_strength.den),
                              required_signal_strength)
            /\ position_check.passed
            /\ risk_reward_check.passed
    IN  [trading_eligible |-> trading_eligible,
         status |->
            IF trading_eligible
               /\ PercentAtLeast(Percent(consensus_strength.num,
                                         consensus_strength.den), 80)
            THEN "STRONG"
            ELSE IF trading_eligible
                    /\ PercentAtLeast(Percent(consensus_strength.num,
                                              consensus_strength.den), 60)
            THEN "MODERATE"
            ELSE "WEAK"]

\* SignalEvaluator.evaluate_signal
evaluate_signal(ps, symbol, signals) ==
    IF signals = <<>>
    THEN [signal_strength |-> [num |-> 0, den |-> 1],
          trading_eligible |-> FALSE,
          status |-> "WEAK",
          details |-> [reason |-> "No signals available"]]
    ELSE LET signal_counts == _calculate_signal_counts(signals)
             consensus_strength == _calculate_consensus_strength(signal_counts)
             position_check == _check_position_limits(ps, symbol)
             risk_reward_check == _check_risk_reward_ratio(signals)
             final == _determine_final_status(consensus_strength,
                                              position_check,
                                              risk_reward_check)
         IN  [signal_strength |-> consensus_strength,
              trading_eligible |-> final.trading_eligible,
              status |-> final.status,
              details |-> [consensus_strength |-> consensus_strength,
                           position_limits |-> position_check,
                           risk_reward |-> risk_reward_check,
                           total_signals |-> Len(signals)]]

InitEvaluator ==
    /\ rules = LoopRules
    /\ serverOffset = EetOffset
    /\ Constructed

\* The symbol evaluated is EURUSD; the broker holds positions of every symbol.
EvaluateSignal ==
    \E symbol \in {"EURUSD"}, signals \in SignalLists :
        /\ call' = [op |-> "evaluate_signal",
                    symbol |-> symbol,
                    signals |-> signals,
                    evaluation |-> evaluate_signal(positions, symbol, signals)]
        /\ UNCHANGED <<rules, serverOffset, daily_stats, last_reset, today,
                       providers, active_symbols, signal_cache, last_signal, emitted, peak_balance,
                       daily_equity_high, observed, queued_closures,
                       positions, market_is_open, session_open, account, now,
                       next_ticket, tick>>

NextEvaluator ==
    \/ BrokerOpensPosition
    \/ EvaluateSignal

SpecEvaluator == InitEvaluator /\ [][NextEvaluator]_vars

\* C16: evaluate_signal reports as signal_strength the share of the
\* plurality direction among the signals (0 for the empty list), a value
\* between 0 and 1.
C16_StrengthIsPluralityShare ==
    call.op = "evaluate_signal" =>
        LET strength == call.evaluation.signal_strength
        IN  /\ strength.den > 0
            /\ 0 <= strength.num
            /\ strength.num <= strength.den
            /\ IF call.signals = <<>>
               THEN strength.num = 0
               ELSE strength.num * Len(call.signals)
                        = PluralityCount(call.signals) * strength.den

\* C17: the position-limit check passes exactly when the symbol has fewer
\* than max_positions_per_symbol open positions and fewer than
\* max_total_positions positions are open in all, and trading_eligible is
\* never reported with max_total_positions or more positions open.
C17_PositionLimitsCountTotal ==
    call.op = "evaluate_signal" =>
        LET of_symbol == Cardinality({p \in positions : p.symbol = call.symbol})
            total == Cardinality(positions)
        IN  /\ call.signals # <<>> =>
                (call.evaluation.details.position_limits.passed
                    <=> (/\ of_symbol < max_positions_per_symbol
                         /\ total < max_total_positions))
            /\ call.evaluation.trading_eligible => total < max_total_positions

---------------------------------------------------------------------------
(* ForexBot.run_trading_loop: one iteration of the polling loop *)

\* The symbols the loop trades, in the order of the configuration.
FavoriteSymbols == <<"EURUSD", "GBPUSD">>


\* The account snapshots the broker reports while the loop runs: the starting
\* one and one past the daily loss limit.
LoopAccounts ==
    {StartAccount, [balance |-> 10, equity |-> 8, profit |-> -2]}

\* The tickets a pass over ps at current_time reports as needing closure.
DueTickets(r, ps, current_time, tick_available) ==
    {p.ticket : p \in {q \in ps :
        check_position_duration(r, q, current_time, tick_available).needs_closure}}

\* A variant of the first pass that also closes every position once the
\* account is past a loss limit.
RECURSIVE CheckExistingPositions_close_on_loss(_, _, _, _, _, _, _)
CheckExistingPositions_close_on_loss(todo, ps, r, current_time, tick_available, market_open, outcome) ==
    IF todo = <<>>
    THEN [positions |-> ps, requests |-> <<>>, reported |-> {},
          checked |-> {}, aborted |-> FALSE]
    ELSE LET position == Head(todo)
             ticket == position.ticket
             duration_check == check_position_duration(r, position, current_time,
                                                       tick_available)
             breached == \/ account.profit <= r.max_daily_loss
                         \/ account.balance <= r.max_total_loss
             rest == CheckExistingPositions_close_on_loss(
                         Tail(todo), {p \in ps : p.ticket # ticket}, r,
                         current_time, tick_available, market_open, outcome)
             same == CheckExistingPositions_close_on_loss(
                         Tail(todo), ps, r, current_time, tick_available,
                         market_open, outcome)
         IN  IF market_open /\ (duration_check.needs_closure \/ breached)
             THEN [rest EXCEPT !.requests = <<ticket>> \o rest.requests,
                               !.checked = rest.checked \cup {ticket},
                               !.reported =
                                   IF duration_check.needs_closure
                                   THEN rest.reported \cup {ticket}
                                   ELSE rest.reported]
             ELSE [same EXCEPT !.checked = same.checked \cup {ticket}]

\* The loop's first pass over the positions get_open_positions returned
\* (todo): each is duration-checked; one that needs closure is sent to
\* close_trade when a trading session is active and only logged otherwise.
\* A raising close_trade leaves the loop body: the pass stops there.
RECURSIVE CheckExistingPositions(_, _, _, _, _, _, _)
CheckExistingPositions(todo, ps, r, current_time, tick_available, market_open, outcome) ==
    IF todo = <<>>
    THEN [positions |-> ps, requests |-> <<>>, reported |-> {},
          checked |-> {}, aborted |-> FALSE]
    ELSE LET position == Head(todo)
             ticket == position.ticket
             duration_check == check_position_duration(r, position, current_time,
                                                       tick_available)
             ending == Ending(outcome[ticket], ticket, ps)
             after == IF duration_check.needs_closure /\ market_open
                         /\ ending = "done"
                      THEN {p \in ps : p.ticket # ticket} ELSE ps
             rest == CheckExistingPositions(Tail(todo), after, r, current_time,
                                            tick_available, market_open, outcome)
         IN  IF ~duration_check.needs_closure
             THEN [rest EXCEPT !.checked = rest.checked \cup {ticket}]
             ELSE IF ~market_open
             THEN [rest EXCEPT !.checked = rest.checked \cup {ticket},
                               !.reported = rest.reported \cup {ticket}]
             ELSE IF ending = "raises"
             THEN [positions |-> ps, requests |-> <<ticket>>,
                   reported |-> {ticket}, checked |-> {ticket},
                   aborted |-> TRUE]
             ELSE [rest EXCEPT !.requests = <<ticket>> \o rest.requests,
                               !.checked = rest.checked \cup {ticket},
                               !.reported = rest.reported \cup {ticket}]

\* The position loop of TradingLogic.monitor_positions: every position is
\* handled in its own try scope, and PositionManager.close_position turns a
\* raising close_trade into a failure.
RECURSIVE MonitorEach(_, _, _, _, _, _)
MonitorEach(todo, ps, r, current_time, tick_available, outcome) ==
    IF todo = <<>>
    THEN [positions |-> ps, requests |-> <<>>, reported |-> {}, checked |-> {}]
    ELSE LET position == Head(todo)
             ticket == position.ticket
             duration_check == check_position_duration(r, position, current_time,
                                                       tick_available)
             ending == Ending(outcome[ticket], ticket, ps)
             after == IF duration_check.needs_closure /\ ending = "done"
                      THEN {p \in ps : p.ticket # ticket} ELSE ps
             rest == MonitorEach(Tail(todo), after, r, current_time,
                                 tick_available, outcome)
         IN  IF ~duration_check.needs_closure
             THEN [rest EXCEPT !.checked = rest.checked \cup {ticket}]
             ELSE [rest EXCEPT !.requests = <<ticket>> \o rest.requests,
                               !.checked = rest.checked \cup {ticket},
                               !.reported = rest.reported \cup {ticket}]

\* TradingLogic.monitor_positions: open is the answer of market_is_open.
monitor_positions(ps, r, current_time, tick_available, open, outcome) ==
    IF ~open
    THEN [positions |-> ps, requests |-> <<>>, reported |-> {}, checked |-> {}]
    ELSE MonitorEach(ByTicket(ps), ps, r, current_time, tick_available, outcome)

\* The setting signal_consensus_threshold (0.66), in percent.
signal_consensus_threshold == 66

\* The volume every provider gives its signals, in the unit of max_lots.
SignalVolume == 1

\* What the signal manager and the broker answer for one symbol in one
\* iteration: the list get_signals returns (empty, a CLOSE, a BUY or a SELL
\* signal) and whether place_trade fills the order.
Advices ==
    [signals : {<<>>, <<[type |-> "CLOSE", ratio |-> 1]>>}, fill : {FALSE}]
        \cup [signals : {<<[type |-> "BUY", ratio |-> 2]>>,
                         <<[type |-> "SELL", ratio |-> 2]>>},
              fill : BOOLEAN]

\* The symbols the loop can still send an order for: those without an open
\* position, while the total is below max_total_positions.
Tradable(ps) ==
    IF Cardinality(ps) >= max_total_positions THEN {}
    ELSE {symbol \in Symbols : \A p \in ps : p.symbol # symbol}

\* The symbols an answer is drawn for in an iteration that starts its
\* trading part with the positions ps.
Consulted(ps, every) ==
    IF every THEN {FavoriteSymbols[i] : i \in DOMAIN FavoriteSymbols}
    ELSE Tradable(ps)

\* A variant that does not look at the symbol's open positions.
execute_trade_any_exposure(signal_type, open_positions) ==
    /\ signal_type # "absent"
    /\ signal_type \in {"BUY", "SELL"}

\* ForexBot.execute_trade up to the place_trade call: is an order sent?
execute_trade(signal_type, open_positions) ==
    /\ signal_type # "absent"
    /\ open_positions = 0
    /\ signal_type \in {"BUY", "SELL"}

\* The loop over the favourite symbols: nt is the broker's next ticket.  The
\* broker fills no order once the ticket ids are used up.
RECURSIVE ProcessNewTrades(_, _, _, _, _)
ProcessNewTrades(symbols, ps, nt, stamp, advice) ==
    IF symbols = <<>>
    THEN [positions |-> ps, next_ticket |-> nt, orders |-> <<>>]
    ELSE LET symbol == Head(symbols)
             signals == IF symbol \in DOMAIN advice
                        THEN advice[symbol].signals ELSE <<>>
             evaluation == evaluate_signal(ps, symbol, signals)
             consensus == get_consensus_signal(signals, symbol,
                                               signal_consensus_threshold)
             signal_type == IF consensus.present THEN consensus.type
                            ELSE "absent"
             open_positions == Cardinality({p \in ps : p.symbol = symbol})
             sent == /\ Cardinality(ps) < max_total_positions
                     /\ execute_trade(signal_type, open_positions)
             filled == sent /\ advice[symbol].fill /\ nt <= MaxTickets
             rest == ProcessNewTrades(
                         Tail(symbols),
                         IF filled
                         THEN ps \cup {[ticket |-> nt, symbol |-> symbol,
                                        time |-> [fmt |-> "num", stamp |-> stamp]]}
                         ELSE ps,
                         IF filled THEN nt + 1 ELSE nt,
                         stamp, advice)
         IN  IF sent
             THEN [rest EXCEPT !.orders =
                      <<[symbol |-> symbol, type |-> signal_type,
                         volume |-> SignalVolume,
                         signals |-> signals,
                         evaluation |-> evaluation,
                         open_positions |-> open_positions,
                         total_positions |-> Cardinality(ps),
                         filled |-> filled]>> \o rest.orders]
             ELSE rest

\* Whether symbol_info_tick answers during the iteration's duration checks;
\* without positions no check asks.
QuoteAnswers(ps) == IF ps = {} THEN {TRUE} ELSE BOOLEAN

InitLoop ==
    /\ rules = LoopRules
    /\ serverOffset = EetOffset
    /\ Constructed

\* What an iteration leaves behind, besides the monitors' state.
Leave(ps, nt, open, t) ==
    /\ positions' = ps
    /\ next_ticket' = nt
    /\ market_is_open' = open
    /\ tick' = t
    /\ call' = NoCall
    /\ UNCHANGED <<rules, serverOffset, daily_stats, last_reset, today,
                   providers, active_symbols, signal_cache, last_signal, emitted, queued_closures, session_open,
                   account, now>>

\* One iteration of ForexBot.run with the market open: run_trading_loop,
\* with the answers of the signal manager and the broker drawn from advices.
\* every: an answer is drawn for every favourite symbol, not only for
\* the symbols an order can still be sent for.
RunTradingLoopWith(advices, every) ==
    /\ market_is_open
    /\ LET ftmo_status == monitor_ftmo_status(peak_balance, account)
           drawdown == monitor_drawdown(ftmo_status.peak_balance,
                                        daily_equity_high, account)
       IN  IF ftmo_status.result.error
           THEN /\ peak_balance' = ftmo_status.peak_balance
                /\ UNCHANGED <<daily_equity_high, observed>>
                /\ Leave(positions, next_ticket, market_is_open,
                         [ran |-> TRUE, market_open |-> session_open,
                          quotes |-> TRUE,
                          monitored |-> FALSE, requests |-> <<>>,
                          reported |-> {}, checked |-> {}, aborted |-> TRUE,
                          orders |-> <<>>])
           ELSE
             /\ peak_balance' = drawdown.peak_balance
             /\ daily_equity_high' = drawdown.daily_equity_high
             /\ observed' = observed \cup {account.balance}
             /\ \E tick_available \in QuoteAnswers(positions) :
                \E outcome \in [DueTickets(rules, positions, now, tick_available)
                                    -> CloseOutcomes] :
                  LET first == CheckExistingPositions(
                                   ByTicket(positions), positions, rules, now,
                                   tick_available, session_open, outcome)
                  IN  IF first.aborted \/ ~session_open
                      THEN Leave(first.positions, next_ticket, market_is_open,
                                 [ran |-> TRUE, market_open |-> session_open,
                          quotes |-> TRUE,
                                  monitored |-> FALSE,
                                  requests |-> first.requests,
                                  reported |-> first.reported,
                                  checked |-> first.checked,
                                  aborted |-> first.aborted,
                                  orders |-> <<>>])
                      ELSE
                        \E still_open \in BOOLEAN :
                        \E again \in [DueTickets(rules, first.positions, now,
                                                 tick_available /\ still_open)
                                          -> CloseOutcomes] :
                          LET second == monitor_positions(
                                            first.positions, rules, now,
                                            tick_available, still_open, again)
                          IN
                        \E advice \in [Consulted(second.positions, every)
                                            -> advices] :
                          LET trades == ProcessNewTrades(
                                            FavoriteSymbols, second.positions,
                                            next_ticket, now + serverOffset,
                                            advice)
                          IN  Leave(trades.positions, trades.next_ticket,
                                    still_open,
                                    [ran |-> TRUE, market_open |-> TRUE,
                                     quotes |-> tick_available,
                                     monitored |-> still_open,
                                     requests |-> first.requests
                                                     \o second.requests,
                                     reported |-> first.reported
                                                     \cup second.reported,
                                     checked |-> first.checked
                                                    \cup second.checked,
                                     aborted |-> FALSE,
                                     orders |-> trades.orders])

RunTradingLoop == RunTradingLoopWith(Advices, FALSE)

\* One iteration of ForexBot.run with the market closed: run_trading_loop is
\* not called.
IdleIteration ==
    /\ ~market_is_open
    /\ tick' = [ran |-> FALSE, skipped |-> TRUE]
    /\ call' = NoCall
    /\ UNCHANGED <<rules, serverOffset, daily_stats, last_reset, today,
                   providers, active_symbols, signal_cache, last_signal, emitted, peak_balance, daily_equity_high,
                   observed, queued_closures, positions, market_is_open,
                   session_open, account, now, next_ticket>>

\* A trading session starts or the last active one ends.
SessionChanges ==
    /\ session_open' = ~session_open
    /\ call' = NoCall
    /\ tick' = NoTick
    /\ UNCHANGED <<rules, serverOffset, daily_stats, last_reset, today,
                   providers, active_symbols, signal_cache, last_signal, emitted, peak_balance, daily_equity_high,
                   observed, queued_closures, positions, market_is_open,
                   account, now, next_ticket>>

AccountChanges ==
    /\ \E a \in LoopAccounts \ {account} : account' = a
    /\ call' = NoCall
    /\ tick' = NoTick
    /\ UNCHANGED <<rules, serverOffset, daily_stats, last_reset, today,
                   providers, active_symbols, signal_cache, last_signal, emitted, peak_balance, daily_equity_high,
                   observed, queued_closures, positions, market_is_open,
                   session_open, now, next_ticket>>

ClockAdvances ==
    /\ now < MaxClock * ClockStep
    /\ now' = now + ClockStep
    /\ call' = NoCall
    /\ tick' = NoTick
    /\ UNCHANGED <<rules, serverOffset, daily_stats, last_reset, today,
                   providers, active_symbols, signal_cache, last_signal, emitted, peak_balance, daily_equity_high,
                   observed, queued_closures, positions, market_is_open,
                   session_open, account, next_ticket>>

NextLoop ==
    \/ RunTradingLoop
    \/ IdleIteration
    \/ BrokerOpensPosition
    \/ MarketChanges
    \/ SessionChanges
    \/ AccountChanges
    \/ ClockAdvances

SpecLoop == InitLoop /\ [][NextLoop]_vars

\* C4: in every iteration run while a trading session is active, a close
\* request is sent for each open position whose duration check reports
\* needs_closure, and a position whose close did not succeed is still open
\* for the next iteration.
C4_DuePositionsSentEveryPass ==
    [][(tick'.ran /\ tick'.market_open) =>
          \A p \in positions :
              check_position_duration(rules, p, now, tick'.quotes).needs_closure
                  => /\ Count(tick'.requests, p.ticket) >= 1
                     /\ p.ticket \in Tickets(positions') => p \in positions']_vars

\* C5: when an iteration run with no trading session active reports that a
\* position needs closure, the position's ticket is in queued_closures.
C5_DueWhileClosedIsQueued ==
    (tick.ran /\ ~tick.market_open) => tick.reported \subseteq queued_closures

\* C8: every close request of an iteration is for a ticket whose duration
\* check reported needs_closure in that iteration or that is queued for
\* closure; an account past a loss limit causes none.
C8_CloseRequestsOnlyForDuePositions ==
    tick.ran =>
        \A i \in DOMAIN tick.requests :
            tick.requests[i] \in tick.reported \cup queued_closures

\* A complete iteration on an account past the daily loss limit that closed
\* the one position that was due and left a younger one open.
C8_Witness ==
    /\ tick.ran
    /\ tick.market_open
    /\ tick.monitored
    /\ account.profit <= rules.max_daily_loss
    /\ tick.requests # <<>>
    /\ \E p \in positions :
          /\ p.ticket \in tick.checked
          /\ p.ticket \notin tick.reported
          /\ Count(tick.requests, p.ticket) = 0

---------------------------------------------------------------------------
(* The trading-days requirement *)

MaxOrders == 3

\* rules['trading_rules'].get('min_trading_days', 4)
min_trading_days(r) ==
    IF "min_trading_days" \in DOMAIN r THEN r.min_trading_days ELSE 4

\* The rules r with min_trading_days configured as d.
WithMinTradingDays(r, d) ==
    [k \in DOMAIN r \cup {"min_trading_days"} |->
        IF k = "min_trading_days" THEN d ELSE r[k]]

\* The orders mt5.history_orders_get returns for the 30-day window: each
\* with its state and its set-up time; two of the times fall on one date.
OrderStates == {"FILLED", "CANCELED"}
SetupTimes == {0, DaySeconds \div 2, DaySeconds}
Orders == [state : OrderStates, time_setup : SetupTimes]
Histories == UNION {[1 .. n -> Orders] : n \in 0 .. MaxOrders}

\* What history_orders_get answers: None, or a tuple of orders.
HistoryAnswers ==
    {[none |-> TRUE, orders |-> <<>>]}
        \cup {[none |-> FALSE, orders |-> h] : h \in Histories}

\* The dates of the filled orders of a history.
TradingDays(history_orders) ==
    {Date(history_orders[i].time_setup) :
        i \in {j \in DOMAIN history_orders :
                 history_orders[j].state = "FILLED"}}

\* A variant that counts the filled orders instead of their dates.
track_trading_days_per_order(r, answer) ==
    LET history_orders == IF answer.none THEN <<>> ELSE answer.orders
        required_days == min_trading_days(r)
        days_completed ==
            Cardinality({j \in DOMAIN history_orders :
                           history_orders[j].state = "FILLED"})
    IN  [days_completed |-> days_completed,
         days_required |-> required_days,
         days_remaining |-> Max({0, required_days - days_completed}),
         status |-> IF days_completed >= required_days
                    THEN "COMPLIANT" ELSE "PENDING",
         trading_dates |-> TradingDays(history_orders)]

\* FTMORuleManager.track_trading_days (MT5Trader has no
\* get_positions_history, so the history-orders branch is the one taken);
\* the per-date volumes it also reports are left out.
track_trading_days(r, answer) ==
    LET history_orders == IF answer.none THEN <<>> ELSE answer.orders
        trading_days == TradingDays(history_orders)
        required_days == min_trading_days(r)
        days_completed == Cardinality(trading_days)
    IN  [days_completed |-> days_completed,
         days_required |-> required_days,
         days_remaining |-> Max({0, required_days - days_completed}),
         status |-> IF days_completed >= required_days
                    THEN "COMPLIANT" ELSE "PENDING",
         trading_dates |-> trading_days]

\* FTMORuleManager.track_trading_days_requirement
track_trading_days_requirement(r, answer) ==
    LET history_orders == IF answer.none THEN <<>> ELSE answer.orders
        trading_days == TradingDays(history_orders)
        min_required == min_trading_days(r)
        days_completed == Cardinality(trading_days)
    IN  [status |-> IF days_completed >= min_required
                    THEN "COMPLIANT" ELSE "PENDING",
         days_completed |-> days_completed,
         days_required |-> min_required,
         days_remaining |-> Max({0, min_required - days_completed}),
         trading_activity |-> trading_days]

\* The rule set is loaded with min_trading_days 1 or 2, or without it.
InitTradingDays ==
    /\ rules \in {LoopRules} \cup {WithMinTradingDays(LoopRules, d) : d \in {1, 2}}
    /\ serverOffset = EetOffset
    /\ Constructed

\* The status report of an iteration reads both trackers, each from the
\* order history of the last 30 days.
TrackTradingDays ==
    \E answer \in HistoryAnswers :
        /\ call' = [op |-> "track_trading_days",
                    answer |-> answer,
                    requirement |-> track_trading_days_requirement(rules, answer),
                    result |-> track_trading_days(rules, answer)]
        /\ UNCHANGED <<rules, serverOffset, daily_stats, last_reset, today,
                       providers, active_symbols, signal_cache, last_signal, emitted, peak_balance,
                       daily_equity_high, observed, queued_closures,
                       positions, market_is_open, session_open, account, now,
                       next_ticket, tick>>

NextTradingDays == TrackTradingDays

SpecTradingDays == InitTradingDays /\ [][NextTradingDays]_vars

\* What C18 says of one report over the orders read.
TradingDaysReported(orders, result) ==
    LET dates == {d \in 0 .. MaxDays :
                    \E i \in DOMAIN orders :
                        /\ orders[i].state = "FILLED"
                        /\ orders[i].time_setup \div DaySeconds = d}
        required == min_trading_days(rules)
    IN  /\ result.days_completed = Cardinality(dates)
        /\ result.status \in {"COMPLIANT", "PENDING"}
        /\ result.status = "COMPLIANT" <=> result.days_completed >= required
        /\ result.days_remaining >= 0
        /\ result.days_remaining >= required - result.days_completed
        /\ \/ result.days_remaining = 0
           \/ result.days_remaining = required - result.days_completed

\* C18: days_completed is the number of distinct dates carrying a filled
\* order, the status is COMPLIANT exactly when days_completed reaches
\* min_trading_days and PENDING otherwise, and days_remaining is
\* max(0, min_trading_days - days_completed).
C18_TradingDaysAreDistinctFilledDates ==
    call.op = "track_trading_days" =>
        /\ TradingDaysReported(call.answer.orders, call.result)
        /\ TradingDaysReported(call.answer.orders, call.requirement)

\* Two filled orders of one date and an unfilled order of another date count
\* as one trading day, which meets a requirement of one day.
C18_Witness ==
    /\ call.op = "track_trading_days"
    /\ \E i, j, k \in DOMAIN call.answer.orders :
        /\ i # j
        /\ call.answer.orders[i].state = "FILLED"
        /\ call.answer.orders[j].state = "FILLED"
        /\ Date(call.answer.orders[i].time_setup)
               = Date(call.answer.orders[j].time_setup)
        /\ call.answer.orders[k].state # "FILLED"
        /\ Date(call.answer.orders[k].time_setup)
               # Date(call.answer.orders[i].time_setup)
    /\ call.result.days_completed = 1
    /\ call.result.status = "COMPLIANT"
    /\ call.result.days_remaining = 0

---------------------------------------------------------------------------
(* Failures inside the duration check and the monitoring pass *)

\* C19: check_position_duration always returns a report; for a position
\* whose open time is malformed, or when the broker gives no tick, the
\* report is the neutral one: needs_closure and warning false, a duration
\* of 0 and the error flag set.
C19_NeutralReportOnFailure ==
    call.op = "check_position_duration" =>
        /\ call.result.error \in BOOLEAN
        /\ call.result.needs_closure \in BOOLEAN
        /\ (call.position.time.fmt = "bad" \/ ~call.tick_available) =>
            /\ ~call.result.needs_closure
            /\ ~call.result.warning
            /\ call.result.duration_seconds = 0
            /\ call.result.error

\* A position with a malformed open time, really open for longer than the
\* maximum while the broker answers, gets the neutral report.
C19_Witness ==
    /\ call.op = "check_position_duration"
    /\ call.position.time.fmt = "bad"
    /\ call.tick_available
    /\ call.current_time - call.opened >= 60 * rules.max_position_duration
    /\ call.result.error
    /\ ~call.result.needs_closure

\* C20: in an iteration that sent a close request, whatever the request's
\* outcome, every position open at its start is duration-checked and, when
\* due while a trading session is active, sent for closure.
C20_PassSurvivesFailedClose ==
    [][(tick'.ran /\ tick'.requests # <<>>) =>
          \A p \in positions :
              /\ p.ticket \in tick'.checked
              /\ (/\ tick'.market_open
                  /\ check_position_duration(rules, p, now,
                                             tick'.quotes).needs_closure)
                     => Count(tick'.requests, p.ticket) >= 1]_vars

---------------------------------------------------------------------------
(* Construction of the rule engine *)

\* The rule fields the engine works with, under flat names.
RequiredFields ==
    {"max_daily_loss", "max_total_loss", "max_position_duration",
     "warning_threshold", "min_trading_days", "profit_target",
     "max_positions", "max_lots"}

\* A complete rule set.
FullRules ==
    [max_daily_loss |-> -1, max_total_loss |-> 1, max_lots |-> 2,
     max_position_duration |-> 60, warning_threshold |-> 75,
     min_trading_days |-> 2, profit_target |-> 4, max_positions |-> 3]

\* No engine has been constructed.
NoRules == << >>

\* ftmo_rules.json: absent, or holding some of the fields.
RulesFiles ==
    {[exists |-> FALSE, fields |-> {}]}
        \cup {[exists |-> TRUE, fields |-> f] : f \in SUBSET RequiredFields}

\* FTMORuleManager._load_rules
_load_rules(file) ==
    IF ~file.exists
    THEN [raised |-> "RuntimeError", rules |-> NoRules]
    ELSE [raised |-> "none", rules |-> [k \in file.fields |-> FullRules[k]]]

\* The fields the constructor's closing log message reads.
LoggedFields ==
    {"max_position_duration", "max_daily_loss", "max_total_loss",
     "warning_threshold"}

\* FTMORuleManager.__init__: the exception that ends it, if any, and the
\* rules of the instance it leaves.
FTMORuleManager__init__(file) ==
    LET loaded == _load_rules(file)
    IN  IF loaded.raised # "none"
        THEN loaded
        ELSE IF ~(LoggedFields \subseteq DOMAIN loaded.rules)
        THEN [raised |-> "KeyError", rules |-> NoRules]
        ELSE loaded

\* FTMORuleManager._get_profit_status
_get_profit_status(progress_percent) ==
    IF PercentAtLeast(progress_percent, 100) THEN "TARGET_REACHED"
    ELSE IF PercentAtLeast(progress_percent, 75) THEN "NEAR_TARGET"
    ELSE IF PercentAtLeast(progress_percent, 50) THEN "ON_TRACK"
    ELSE "IN_PROGRESS"

\* FTMORuleManager.track_profit_target
track_profit_target(r, account_info) ==
    LET profit_target == IF "profit_target" \in DOMAIN r
                         THEN r.profit_target ELSE 1000
        current_profit == account_info.profit
        progress_percent == Percent(current_profit, profit_target)
    IN  [current_profit |-> current_profit,
         target |-> profit_target,
         remaining |-> profit_target - current_profit,
         progress_percent |-> progress_percent,
         status |-> _get_profit_status(progress_percent)]

InitConstruct ==
    /\ rules = NoRules
    /\ serverOffset = EetOffset
    /\ Constructed

\* FTMORuleManager() is called, as ForexBot.__init__ does, while no engine
\* exists.
Construct ==
    /\ rules = NoRules
    /\ \E file \in RulesFiles :
        LET made == FTMORuleManager__init__(file)
        IN  /\ rules' = made.rules
            /\ call' = [op |-> "__init__", file |-> file,
                        raised |-> made.raised]
    /\ UNCHANGED <<serverOffset, daily_stats, last_reset, today, providers,
                   active_symbols, signal_cache, last_signal, emitted, peak_balance,
                   daily_equity_high, observed, queued_closures, positions,
                   market_is_open, session_open, account, now, next_ticket,
                   tick>>

\* The engine that exists reports on the profit target.
TrackProfitTarget ==
    /\ rules # NoRules
    /\ \E account_info \in LoopAccounts :
        call' = [op |-> "track_profit_target",
                 account_info |-> account_info,
                 result |-> track_profit_target(rules, account_info)]
    /\ UNCHANGED <<rules, serverOffset, daily_stats, last_reset, today,
                   providers, active_symbols, signal_cache, last_signal, emitted, peak_balance,
                   daily_equity_high, observed, queued_closures, positions,
                   market_is_open, session_open, account, now, next_ticket,
                   tick>>

NextConstruct ==
    \/ Construct
    \/ TrackProfitTarget

SpecConstruct == InitConstruct /\ [][NextConstruct]_vars

\* C21: an engine exists only with a complete rule set: construction fails
\* when the rules file is absent or lacks a required field, and no report
\* of an engine carries a value the rules file did not give.
C21_NoEngineWithPartialRules ==
    /\ rules # NoRules => RequiredFields \subseteq DOMAIN rules
    /\ call.op = "__init__" =>
           (call.raised = "none"
               <=> (call.file.exists /\ RequiredFields \subseteq call.file.fields))
    /\ call.op = "track_profit_target" =>
           call.result.target = FullRules.profit_target

---------------------------------------------------------------------------
(* A signal provider and its last signals *)

\* What the candles handed to calculate_signal amount to: fewer than
\* slow_period of them, or the fast average above, below or equal to the
\* slow one.
CandleCases == {"insufficient", "fast_above", "fast_below", "equal"}

\* Signal.is_valid; priced tells that entry_price, stop_loss, take_profit
\* and volume are all set.
is_valid(signal) ==
    IF signal.type = "NONE" THEN TRUE
    ELSE IF signal.symbol = "" THEN FALSE
    ELSE IF signal.type \in {"BUY", "SELL"} THEN signal.priced
    ELSE TRUE

\* SignalProvider._update_last_signal
_update_last_signal(last, symbol, signal) ==
    [y \in DOMAIN last \cup {symbol} |-> IF y = symbol THEN signal ELSE last[y]]

\* MovingAverageProvider.calculate_signal: the signal returned and the
\* provider's _last_signal afterwards.
calculate_signal(last, symbol, candles, current_time) ==
    IF candles = "insufficient"
    THEN [signal |-> [type |-> "NONE", symbol |-> symbol,
                      timestamp |-> current_time, priced |-> FALSE],
          last_signal |-> last]
    ELSE LET signal_type == IF candles = "fast_above" THEN "BUY"
                            ELSE IF candles = "fast_below" THEN "SELL"
                            ELSE "NONE"
             signal == [type |-> signal_type, symbol |-> symbol,
                        timestamp |-> current_time,
                        priced |-> signal_type # "NONE"]
         IN  [signal |-> signal,
              last_signal |-> IF is_valid(signal)
                              THEN _update_last_signal(last, symbol, signal)
                              ELSE last]

\* SignalProvider.get_last_signal
get_last_signal(last, symbol) ==
    IF symbol \in DOMAIN last
    THEN [present |-> TRUE, signal |-> last[symbol]]
    ELSE [present |-> FALSE]

InitProvider ==
    /\ rules = LoopRules
    /\ serverOffset = EetOffset
    /\ Constructed

CalculateSignal ==
    \E symbol \in Symbols, candles \in CandleCases :
        LET c == calculate_signal(last_signal, symbol, candles, now)
        IN  /\ last_signal' = c.last_signal
            /\ emitted' = IF is_valid(c.signal)
                          THEN _update_last_signal(emitted, symbol, c.signal)
                          ELSE emitted
            /\ call' = [op |-> "calculate_signal", symbol |-> symbol,
                        candles |-> candles, result |-> c.signal]
            /\ UNCHANGED <<rules, serverOffset, daily_stats, last_reset, today,
                           providers, active_symbols, signal_cache,
                           peak_balance, daily_equity_high, observed,
                           queued_closures, positions, market_is_open,
                           session_open, account, now, next_ticket, tick>>

GetLastSignal ==
    \E symbol \in Symbols :
        /\ call' = [op |-> "get_last_signal", symbol |-> symbol,
                    result |-> get_last_signal(last_signal, symbol)]
        /\ UNCHANGED <<rules, serverOffset, daily_stats, last_reset, today,
                       providers, active_symbols, signal_cache, last_signal,
                       emitted, peak_balance, daily_equity_high, observed,
                       queued_closures, positions, market_is_open,
                       session_open, account, now, next_ticket, tick>>

NextProvider ==
    \/ CalculateSignal
    \/ GetLastSignal
    \/ HalfMinutePasses

SpecProvider == InitProvider /\ [][NextProvider]_vars

\* C22: get_last_signal(symbol) returns the most recent valid signal that
\* calculate_signal returned for the symbol, NONE signals included, and
\* nothing when there has been none.
C22_LastSignalIsLatestValid ==
    call.op = "get_last_signal" =>
        call.result = IF call.symbol \in DOMAIN emitted
                      THEN [present |-> TRUE, signal |-> emitted[call.symbol]]
                      ELSE [present |-> FALSE]

---------------------------------------------------------------------------
(* SpecTrade: the loop's orders, with the signals behind them *)

\* The lists get_signals returns in this specification: none, one BUY with
\* a reward/risk of 2 or of 1, two BUY against one SELL, one CLOSE, one NONE.
TradeSignalLists ==
    {<<>>,
     <<[type |-> "BUY", ratio |-> 2]>>,
     <<[type |-> "BUY", ratio |-> 1]>>,
     <<[type |-> "BUY", ratio |-> 2], [type |-> "BUY", ratio |-> 2],
       [type |-> "SELL", ratio |-> 2]>>,
     <<[type |-> "CLOSE", ratio |-> 1]>>,
     <<[type |-> "NONE", ratio |-> 1]>>}

SignalAdvices == [signals : TradeSignalLists, fill : BOOLEAN]

\* The bot runs while the market is open and a trading session is active.
InitTrade ==
    /\ rules = LoopRules
    /\ serverOffset = EetOffset
    /\ call = NoCall
    /\ peak_balance = Unset
    /\ daily_equity_high = Unset
    /\ observed = {}
    /\ queued_closures = {}
    /\ positions = {}
    /\ market_is_open = TRUE
    /\ session_open = TRUE
    /\ account = StartAccount
    /\ now = 0
    /\ next_ticket = 1
    /\ tick = NoTick
    /\ daily_stats = [total_profit |-> 0, positions_opened |-> 0,
                      max_drawdown |-> 0]
    /\ last_reset = 0
    /\ today = NoDay
    /\ providers = << >>
    /\ active_symbols = {}
    /\ signal_cache = << >>
    /\ last_signal = << >>
    /\ emitted = << >>

\* MT5Trader.place_trade: the side of the market order it sends for an
\* order_type string.
place_trade(order_type) == IF order_type = "BUY" THEN "BUY" ELSE "SELL"

\* TradingLogic._validate_trading_conditions for the consensus signal: the
\* risk/reward test runs only when the signal carries prices, which a
\* consensus of BUY or SELL does; ratio is the reward/risk of its averaged
\* prices.
_validate_trading_conditions(ps, symbol, consensus, ratio) ==
    /\ Cardinality(ps) < max_total_positions
    /\ Cardinality({p \in ps : p.symbol = symbol}) < max_positions_per_symbol
    /\ consensus.type \in {"BUY", "SELL"} => ratio >= min_risk_reward

\* TradingLogic.process_symbol up to the place_trade call.
process_symbol(ps, symbol, signals, ratio) ==
    LET consensus == get_consensus_signal(signals, symbol,
                                          signal_consensus_threshold)
        placed ==
            /\ signals # <<>>
            /\ consensus.present
            /\ consensus.type # "NONE"
            /\ CountType(signals, consensus.type) * 100
                   >= required_signal_strength * Len(signals)
            /\ _validate_trading_conditions(ps, symbol, consensus, ratio)
    IN  [placed |-> placed,
         consensus |-> consensus,
         side |-> IF placed THEN place_trade(consensus.type) ELSE "none"]

\* One process_symbol call; the broker fills the order or refuses it.
ProcessSymbol ==
    \E symbol \in Symbols, signals \in TradeSignalLists,
       ratio \in RewardRisk, fill \in BOOLEAN :
        LET r == process_symbol(positions, symbol, signals, ratio)
            filled == r.placed /\ fill /\ next_ticket <= MaxTickets
        IN  /\ positions' =
                   IF filled
                   THEN positions \cup
                            {[ticket |-> next_ticket, symbol |-> symbol,
                              time |-> [fmt |-> "num",
                                        stamp |-> now + serverOffset]]}
                   ELSE positions
            /\ next_ticket' = IF filled THEN next_ticket + 1 ELSE next_ticket
            /\ call' = [op |-> "process_symbol", symbol |-> symbol,
                        signals |-> signals, consensus |-> r.consensus,
                        placed |-> r.placed, side |-> r.side,
                        filled |-> filled]
            /\ tick' = NoTick
            /\ UNCHANGED <<rules, serverOffset, daily_stats, last_reset, today,
                           providers, active_symbols, signal_cache, last_signal,
                           emitted, peak_balance, daily_equity_high, observed,
                           queued_closures, market_is_open, session_open,
                           account, now>>

RunTradingLoopOnSignals == RunTradingLoopWith(SignalAdvices, TRUE)

NextTrade ==
    \/ RunTradingLoopOnSignals
    \/ BrokerOpensPosition
    \/ AccountChanges

SpecTrade == InitTrade /\ [][NextTrade]_vars

\* C23: every order of an iteration is for a symbol whose signals the
\* evaluation found trading_eligible.
C23_OrdersOnlyWhenEligible ==
    tick.ran =>
        \A i \in DOMAIN tick.orders : tick.orders[i].evaluation.trading_eligible

\* C24: no order is sent in an iteration whose account snapshot makes
\* check_position_allowed reject the order's volume.
C24_NoOrderPastLossLimits ==
    tick.ran =>
        \A i \in DOMAIN tick.orders :
            check_position_allowed(rules, account, tick.orders[i].volume).allowed

\* C27: an order is sent only while fewer than max_total_positions positions
\* are open and the symbol has none; after the iteration a filled order's
\* symbol has one position and the total is within max_total_positions.
C27_OrdersWithinPositionLimits ==
    tick.ran =>
        \A i \in DOMAIN tick.orders :
            LET o == tick.orders[i]
            IN  /\ o.total_positions < max_total_positions
                /\ o.open_positions = 0
                /\ o.filled =>
                    /\ Cardinality({p \in positions : p.symbol = o.symbol}) = 1
                    /\ Cardinality(positions) <= max_total_positions

\* An iteration filled an order that brought the total to
\* max_total_positions and sent none for the symbol already held.
C27_Witness ==
    /\ tick.ran
    /\ Len(tick.orders) = 1
    /\ tick.orders[1].filled
    /\ tick.orders[1].total_positions = max_total_positions - 1
    /\ Cardinality(positions) = max_total_positions
    /\ \E symbol \in Symbols :
          /\ symbol # tick.orders[1].symbol
          /\ Cardinality({p \in positions : p.symbol = symbol}) >= 1


---------------------------------------------------------------------------
(* Claims on check_ftmo_compliance *)

\* C26: check_ftmo_compliance lists "Daily loss limit exceeded" (and is then
\* not compliant) if and only if profit <= max_daily_loss, that is exactly
\* when check_position_allowed rejects the snapshot for the daily loss; a
\* positive profit never gives a daily-loss violation.
C26_DailyLossViolationIffBreached ==
    call.op = "check_ftmo_compliance" =>
        LET listed == \E i \in DOMAIN call.result.violations :
                          call.result.violations[i] = "Daily loss limit exceeded"
        IN  /\ listed <=> call.account_info.profit <= rules.max_daily_loss
            /\ listed <=>
                   check_position_allowed_daily_only(rules, call.account_info, 0).allowed
                       = FALSE
            /\ listed => ~call.result.compliant
            /\ call.account_info.profit > 0 => ~listed

---------------------------------------------------------------------------
(* Claims on the close requests of one loop iteration *)

\* C28: within one iteration of the trading loop at most one close request
\* is sent per position ticket: a position whose close was refused in the
\* iteration is not sent for closure again before the next iteration.
C28_OneCloseRequestPerTick ==
    tick.ran => \A t \in TicketIds : Count(tick.requests, t) <= 1

---------------------------------------------------------------------------
(* Claims on the direction of the orders *)

\* Both ways to an order: the trading loop and process_symbol.
NextProcess ==
    \/ RunTradingLoop
    \/ ProcessSymbol
    \/ BrokerOpensPosition

SpecProcess == InitTrade /\ [][NextProcess]_vars

\* C29: an order is sent to the broker only for a consensus signal of
\* direction BUY or SELL, in the trading loop and in process_symbol: a
\* consensus of NONE or CLOSE never leads to a place_trade call.
C29_OrdersOnlyForBuyOrSell ==
    /\ tick.ran =>
           \A i \in DOMAIN tick.orders : tick.orders[i].type \in {"BUY", "SELL"}
    /\ (call.op = "process_symbol" /\ call.placed) =>
           call.consensus.type \in {"BUY", "SELL"}

---------------------------------------------------------------------------
(* SpecEnforce: the polling loop keeps running *)

\* The signal manager has no signal for any symbol.
NoAdvice == {[signals |-> <<>>, fill |-> FALSE]}

RunTradingLoopQuiet == RunTradingLoopWith(NoAdvice, FALSE)

\* One iteration of the while loop of ForexBot.run.
Iteration == RunTradingLoopQuiet \/ IdleIteration

NextEnforce ==
    \/ RunTradingLoopQuiet
    \/ IdleIteration
    \/ BrokerOpensPosition
    \/ MarketChanges
    \/ SessionChanges
    \/ ClockAdvances

\* ForexBot.run iterates as long as the bot runs: an iteration is always
\* possible and is eventually taken.
SpecEnforce == InitLoop /\ [][NextEnforce]_vars /\ WF_vars(Iteration)

\* The position with ticket t is open.
IsOpen(t) == t \in Tickets(positions)

\* The position with ticket t is open and has been open for the maximum
\* duration or longer.
Overdue(t) ==
    \E p \in positions :
        /\ p.ticket = t
        /\ now - (p.time.stamp - serverOffset) >= 60 * rules.max_position_duration

\* The last iteration sent a close request for ticket t.
Requested(t) == tick.ran /\ Count(tick.requests, t) >= 1

=========================================================================
